---- MODULE Spec2Model ----
(***************************************************************************)
(* Model of the calibrated classification core of blocks49:                *)
(*   - Layout.dots_per_track           (src/ui/src/api/layout.ts)          *)
(*   - Classifier                      (src/unnamed/part_020)              *)
(*   - classifier worker               (src/ui/src/app/classifier.worker.ts)*)
(*   - RrLiveView capture loop         (src/ui/src/rr-live-view.ts)        *)
(*   - RrMarker validation loop        (src/ui/src/rr-marker.ts)           *)
(*   - user upload route               (src/unnamed/part_003)              *)
(*   - rbacMiddleware                  (src/server/src/middleware/rbac.ts) *)
(* Each part has its own specification over the shared variables; the      *)
(* variables of the other parts stay at their initial values.              *)
(***************************************************************************)
EXTENDS Integers, Sequences, FiniteSets, TLC

VARIABLES
  \* ---- Layout (calibration) ----
  layout,        \* Layout._dataInternal: p1x, p1y, p2x, p2y, referenceDistanceMm, scale
  dptOut,        \* last value read from the dots_per_track getter, or Unread
  \* ---- Classifier instance ----
  initPromise,   \* Classifier._initPromise: "null" | "pending" | "fulfilled" | "rejected"
  initPc,        \* where _doInitialize is suspended
  hasModelData,  \* modelData argument of the initialize() call that started the load
  config,        \* Classifier._config !== null
  session,       \* Classifier._session !== null
  configFetches, \* number of fetch(model.config) calls
  modelFetches,  \* number of fetch(model_<precision>.ort) calls
  waiters,       \* explicit initialize() callers: sequence of "waiting"|"resolved"|"rejected"
  callState,     \* classify calls in submission order: sequence of call states
  running,       \* calls currently inside session.run
  runLog,        \* calls in the order they entered session.run
  patchLog,      \* the patch() calls made by _doClassify: [call, draw, result]
  doneLog,       \* calls in the order their classify promise settled
  \* ---- RrLiveView (interactive thread) ----
  isConnected,   \* the element is in the document
  liveClassifier,\* RrLiveView.classifier: 0 = undefined, else the (model, precision) pair
  markersData,   \* layout.apiImages[0].markers: NoImage, or the set of marker ids
  worker,        \* RrLiveView._worker: 0 = null, else the worker's generation
  workersMade,   \* number of Worker objects constructed so far
  isWorkerBusy,  \* RrLiveView._isWorkerBusy
  loopId,        \* RrLiveView._loopId !== null
  rafPending,    \* a requestAnimationFrame callback of the loop is scheduled
  connecting,    \* connectedCallback invocations suspended at await _startCamera()
  capturing,     \* a _sendFrameToWorker is suspended at await createImageBitmap()
  frames,        \* every frame captured so far: [st, answers]
  toWorker,      \* messages posted to the current worker, not yet received
  toMain,        \* messages posted by the current worker, not yet handled
  \* ---- classifier worker ----
  wClassifier,   \* the worker's classifier: "null" | "loading" | "ready" | "failed"
  wInit,         \* the init handler of that classifier: "none" | "awaiting" | "answered"
  wPair,         \* the (model, precision) pair of the worker's classifier, 0 = none
  wLoads,        \* number of Classifier instances the worker constructed and loaded
  wOldInits,     \* init handlers still awaiting the load of a replaced classifier
  wIsBusy,       \* the worker's isBusy
  wBatch,        \* the classify-batch handler in progress, or NoBatch
  \* ---- RrLiveView display and publisher ----
  now,           \* performance.now() in ms
  lastDisplayUpdateTime, \* RrLiveView._lastDisplayUpdateTime
  displayState,  \* RrLiveView._displayState: markers, inferenceTimeMs
  displayLog,    \* the times at which _displayState was assigned
  mqttClient,    \* RrLiveView._mqttClient: "null" | "connecting" | "connected"
  published,     \* the last batch handed to _mqttClient.publish, or NoPublish
  \* ---- RrLiveView camera and loop callback ----
  stream,        \* RrLiveView._stream !== null: a camera stream is held open
  lastTick,      \* what the last loop callback did: "none" before the first one
  \* ---- RrMarker (editor validation loop) ----
  imageIndex,    \* RrMarker.imageIndex (-1 = none)
  imageBitmap,   \* RrMarker._imageBitmap: -1 = null, else the image it shows
  bitmapLoads,   \* images whose getBitmap() an _updateImage call is awaiting
  cachedBitmaps, \* images whose LayoutImage holds its decoded bitmap (_bitmap)
  edClassifier,  \* RrMarker.classifier: 0 = undefined, else the instance
  dragHandle,    \* RrMarker.dragHandle !== null
  edMarkers,     \* layout.apiImages[i].markers, per image: id -> [x, y, type]
  usedIds,       \* marker ids handed out so far (crypto.randomUUID never repeats)
  validationResults,        \* RrMarker.validationResults: id -> result
  markerValidationRequests, \* RrMarker._markerValidationRequests: id -> latest number
  passes,        \* validateMarkers invocations awaiting Promise.all: pass id -> state
  passCount,     \* validateMarkers invocations that issued classify calls
  edCalls,       \* classify calls issued by the passes, in submission order
  staleSeen,     \* a classification arrived after its request number was superseded
  dptUsed,       \* the img_dpt values the editor handed to Classifier.classify / patch
  \* ---- upload routes of the server ----
  imageRows,     \* number of rows of the images table that belong to the layout
  storedFiles,   \* number of files put into storage for the layout
  uploads,       \* the POST /:layoutId/images requests: request -> [pc, owner, hasFile, status]
  \* ---- pure functions (Classifier.patch geometry, float32ToFloat16) ----
  fnArgs,        \* the arguments of the call
  fnResult       \* NoResult, or <<value>> once the function returned

calibVars == <<layout, dptOut>>
clsVars   == <<initPromise, initPc, hasModelData, config, session, configFetches,
               modelFetches, waiters, callState, running, runLog, patchLog, doneLog>>
mainVars  == <<isConnected, liveClassifier, markersData, worker, workersMade,
               isWorkerBusy, loopId, rafPending, connecting, capturing>>
chanVars  == <<frames, toWorker, toMain>>
wrkVars   == <<wClassifier, wInit, wPair, wLoads, wOldInits, wIsBusy, wBatch>>
dispVars  == <<now, lastDisplayUpdateTime, displayState, displayLog, mqttClient, published>>
camVars   == <<stream, lastTick>>
liveVars  == <<mainVars, chanVars, wrkVars, dispVars, camVars>>
edVars    == <<imageIndex, imageBitmap, bitmapLoads, cachedBitmaps, edClassifier, dragHandle, edMarkers,
               usedIds, validationResults, markerValidationRequests, passes, passCount,
               edCalls, staleSeen, dptUsed>>
srvVars   == <<imageRows, storedFiles, uploads>>
fnVars    == <<fnArgs, fnResult>>
vars      == <<calibVars, clsVars, liveVars, edVars, srvVars, fnVars>>

exceptCalib == <<clsVars, liveVars, edVars, srvVars, fnVars>>
exceptCls   == <<calibVars, liveVars, edVars, srvVars, fnVars>>
exceptEd    == <<calibVars, clsVars, liveVars, srvVars, fnVars>>
exceptFn    == <<calibVars, clsVars, liveVars, edVars, srvVars>>
exceptLive  == <<clsVars, dptOut, edVars, srvVars, fnVars>>   \* the live view reads layout
exceptSrv   == <<calibVars, clsVars, liveVars, edVars, fnVars>>

(***************************************************************************)
(* Bounds                                                                  *)
(***************************************************************************)
MaxCoord     == 2   \* calibration coordinates range over 0..MaxCoord (and undefined)
MaxDist      == 2   \* referenceDistanceMm ranges over -1..MaxDist (and undefined)
MaxCalls     == 3   \* classify calls issued against one Classifier
MaxInitCalls == 2   \* explicit initialize() calls against one Classifier
MaxFrames    == 3   \* frames captured by the live loop
MaxWorkers   == 2   \* Worker objects constructed by the live view
MaxConnecting == 2  \* connectedCallback invocations awaiting the camera at once
MaxPasses    == 2   \* validateMarkers invocations that issue classify calls
MaxCenter    == 2   \* marker centre coordinates handed to patch() range over 0..MaxCenter
MaxInits     == 3   \* init messages posted to one worker
MaxUploads   == 3   \* upload requests to one layout
MaxSeconds   == 4   \* performance.now() stays within MaxSeconds * 1000 ms

(***************************************************************************)
(* Optional numbers: <<>> is JavaScript's undefined, <<n>> the number n.   *)
(***************************************************************************)
Undef    == <<>>
Num(n)   == <<n>>
Falsy(v) == v = Undef \/ v[1] = 0              \* !v for v: number | undefined
OrZero(v) == IF Falsy(v) THEN 0 ELSE v[1]      \* v || 0

(***************************************************************************)
(* Layout.dots_per_track                                                   *)
(* Real numbers are kept in fixed point with FP units per 1.0; the         *)
(* sentinel -1 is Sentinel = -FP.                                          *)
(***************************************************************************)
FP == 10 * 10
Sentinel == 0 - FP
standard_gauge_mm == 1435

ScaleNames == {"G", "O", "S", "HO", "T", "N", "Z"}
Scale2Number(s) ==
  CASE s = "G" -> 25 [] s = "O" -> 48 [] s = "S" -> 64 [] s = "HO" -> 87
    [] s = "T" -> 72 [] s = "N" -> 160 [] s = "Z" -> 96 [] OTHER -> 0

\* get scale(): Scale2Number[this._dataInternal.scale] || 87
scale(l) == IF Scale2Number(l.scale) = 0 THEN 87 ELSE Scale2Number(l.scale)

\* floor(sqrt(n)) by bisection on [lo, hi)
RECURSIVE SqrtBisect(_, _, _)
SqrtBisect(n, lo, hi) ==
  IF hi - lo <= 1 THEN lo
  ELSE LET mid == (lo + hi) \div 2
       IN IF mid * mid <= n THEN SqrtBisect(n, mid, hi) ELSE SqrtBisect(n, lo, mid)

\* the least power of two above h whose square exceeds n
RECURSIVE SqrtHi(_, _)
SqrtHi(n, h) == IF h * h > n THEN h ELSE SqrtHi(n, 2 * h)

\* Math.sqrt(n) in fixed point
SqrtFP(n) == SqrtBisect(n * FP * FP, 0, SqrtHi(n * FP * FP, 1))

dots_per_track_point_guard(l) ==
  Falsy(l.p1x) /\ Falsy(l.p1y) /\ Falsy(l.p2x) /\ Falsy(l.p2y)

\* dots_per_track that tests only !distMm and not distMm <= 0
dots_per_track_no_sign_check(l) ==
  LET p1x == OrZero(l.p1x)
      p1y == OrZero(l.p1y)
      p2x == OrZero(l.p2x)
      p2y == OrZero(l.p2y)
      distPx == SqrtFP((p2x - p1x) * (p2x - p1x) + (p2y - p1y) * (p2y - p1y))
      distMm == l.referenceDistanceMm
  IN IF dots_per_track_point_guard(l) THEN Sentinel
     ELSE IF Falsy(distMm) THEN Sentinel
     ELSE (distPx * standard_gauge_mm) \div (distMm[1] * scale(l))

\* dots_per_track that returns the pixel density distPx / distMm without
\* the gauge factor
dots_per_track_no_gauge(l) ==
  LET p1x == OrZero(l.p1x)
      p1y == OrZero(l.p1y)
      p2x == OrZero(l.p2x)
      p2y == OrZero(l.p2y)
      distPx == SqrtFP((p2x - p1x) * (p2x - p1x) + (p2y - p1y) * (p2y - p1y))
      distMm == l.referenceDistanceMm
  IN IF dots_per_track_point_guard(l) THEN Sentinel
     ELSE IF Falsy(distMm) \/ distMm[1] <= 0 THEN Sentinel
     ELSE distPx \div distMm[1]

dots_per_track(l) ==
  LET p1x == OrZero(l.p1x)
      p1y == OrZero(l.p1y)
      p2x == OrZero(l.p2x)
      p2y == OrZero(l.p2y)
      distPx == SqrtFP((p2x - p1x) * (p2x - p1x) + (p2y - p1y) * (p2y - p1y))
      distMm == l.referenceDistanceMm
  IN IF dots_per_track_point_guard(l) THEN Sentinel
     ELSE IF Falsy(distMm) \/ distMm[1] <= 0 THEN Sentinel
     ELSE (distPx * standard_gauge_mm) \div (distMm[1] * scale(l))

Unread == <<>>

Coords    == 0..MaxCoord
OptCoords == {Undef} \cup {Num(c) : c \in Coords}
Dists     == {Undef} \cup {Num(d) : d \in (0 - 1)..MaxDist}

\* Layout constructor defaults: no calibration fields, scale "HO"
NewLayout ==
  [p1x |-> Undef, p1y |-> Undef, p2x |-> Undef, p2y |-> Undef,
   referenceDistanceMm |-> Undef, scale |-> "HO"]

setCalibration(p1x, p1y, p2x, p2y) ==
  /\ layout' = [layout EXCEPT !.p1x = Num(p1x), !.p1y = Num(p1y),
                              !.p2x = Num(p2x), !.p2y = Num(p2y)]
  /\ dptOut' = Unread
  /\ UNCHANGED exceptCalib

setReferenceDistance(mm) ==
  /\ layout' = [layout EXCEPT !.referenceDistanceMm = Num(mm)]
  /\ dptOut' = Unread
  /\ UNCHANGED exceptCalib

\* setScale ignores names that are not in Scale2Number
setScale(s) ==
  /\ layout' = IF Scale2Number(s) = 0 THEN layout ELSE [layout EXCEPT !.scale = s]
  /\ dptOut' = Unread
  /\ UNCHANGED exceptCalib

\* a reader evaluates the getter on the current layout
ReadDpt ==
  /\ dptOut = Unread
  /\ dptOut' = Num(dots_per_track(layout))
  /\ UNCHANGED layout
  /\ UNCHANGED exceptCalib

\* new Layout(data): the constructor merges a partial ApiLayout, whose
\* calibration fields are all optional, into the defaults
ConstructedLayouts ==
  [p1x : OptCoords, p1y : OptCoords, p2x : OptCoords, p2y : OptCoords,
   referenceDistanceMm : Dists, scale : ScaleNames \cup {"X"}]

\* a stored calibration of an HO layout: p1 = (10,10), p2 = (110,10),
\* 100 mm between them
ScenarioLayout ==
  [p1x |-> Num(10), p1y |-> Num(10), p2x |-> Num(110), p2y |-> Num(10),
   referenceDistanceMm |-> Num(100), scale |-> "HO"]

(***************************************************************************)
(* Classifier                                                              *)
(***************************************************************************)
Settled(s) == s \in {"resolved", "rejected"}

ClsInitState ==
  /\ initPromise = "null"
  /\ initPc = "idle"
  /\ hasModelData = FALSE
  /\ config = FALSE
  /\ session = FALSE
  /\ configFetches = 0
  /\ modelFetches = 0
  /\ waiters = <<>>
  /\ callState = <<>>
  /\ running = {}
  /\ runLog = <<>>
  /\ patchLog = <<>>
  /\ doneLog = <<>>

\* initialize(modelData) without the memo: every call starts a load
initializeNoMemo(md) ==
  /\ initPromise' = "pending"
  /\ initPc' = "config"
  /\ hasModelData' = md
  /\ configFetches' = configFetches + 1

\* initialize(modelData) that starts a new load after a failed one
initializeRetry(md) ==
  IF initPromise \in {"pending", "fulfilled"}
  THEN UNCHANGED <<initPromise, initPc, hasModelData, configFetches>>
  ELSE initializeNoMemo(md)

\* initialize(modelData): returns the memoized promise, or starts
\* _doInitialize, which runs synchronously up to its first fetch
initialize(md) ==
  IF initPromise # "null"
  THEN UNCHANGED <<initPromise, initPc, hasModelData, configFetches>>
  ELSE /\ initPromise' = "pending"
       /\ initPc' = "config"
       /\ hasModelData' = md
       /\ configFetches' = configFetches + 1

\* an explicit initialize() call (pre-loading); the caller awaits the promise
Initialize(md) ==
  /\ Len(waiters) < MaxInitCalls
  /\ initialize(md)
  /\ waiters' = Append(waiters, "waiting")
  /\ UNCHANGED <<config, session, modelFetches, callState, running, runLog, patchLog, doneLog>>
  /\ UNCHANGED exceptCls

\* the awaiting caller's continuation runs once the shared promise settled
WaiterSettles(w) ==
  /\ w \in 1..Len(waiters)
  /\ waiters[w] = "waiting"
  /\ initPromise \in {"fulfilled", "rejected"}
  /\ waiters' = [waiters EXCEPT ![w] = IF initPromise = "fulfilled" THEN "resolved" ELSE "rejected"]
  /\ UNCHANGED <<initPromise, initPc, hasModelData, config, session, configFetches,
                 modelFetches, callState, running, runLog, patchLog, doneLog>>
  /\ UNCHANGED exceptCls

\* _doInitialize step 1: the model.config fetch answers
InitConfigLoaded(ok) ==
  /\ initPc = "config"
  /\ IF ok
     THEN /\ config' = TRUE
          /\ IF hasModelData
             THEN initPc' = "session" /\ UNCHANGED modelFetches
             ELSE initPc' = "model" /\ modelFetches' = modelFetches + 1
          /\ UNCHANGED initPromise
     ELSE /\ initPc' = "failed"
          /\ initPromise' = "rejected"
          /\ UNCHANGED <<config, modelFetches>>
  /\ UNCHANGED <<hasModelData, session, configFetches, waiters, callState,
                 running, runLog, patchLog, doneLog>>
  /\ UNCHANGED exceptCls

\* _doInitialize step 2: the model weights fetch answers
InitModelLoaded(ok) ==
  /\ initPc = "model"
  /\ IF ok
     THEN initPc' = "session" /\ UNCHANGED initPromise
     ELSE initPc' = "failed" /\ initPromise' = "rejected"
  /\ UNCHANGED <<hasModelData, config, session, configFetches, modelFetches, waiters,
                 callState, running, runLog, patchLog, doneLog>>
  /\ UNCHANGED exceptCls

\* _doInitialize step 2: InferenceSession.create answers
InitSessionCreated(ok) ==
  /\ initPc = "session"
  /\ IF ok
     THEN initPc' = "done" /\ initPromise' = "fulfilled" /\ session' = TRUE
     ELSE initPc' = "failed" /\ initPromise' = "rejected" /\ UNCHANGED session
  /\ UNCHANGED <<hasModelData, config, configFetches, modelFetches, waiters,
                 callState, running, runLog, patchLog, doneLog>>
  /\ UNCHANGED exceptCls

(***************************************************************************)
(* Classifier.classify: calls are chained on this._queue                   *)
(***************************************************************************)
\* the chain without the queue: a call starts as soon as it is issued
CanStartUnqueued(i) == TRUE

\* the chain on the bare result promise (this._queue = result): a rejected
\* call leaves the queue rejected and the bodies chained on it never run
CanStartAfterSuccess(i) == IF i = 1 THEN TRUE ELSE callState[i - 1] = "resolved"

\* this._queue.then(...): the body of call i starts when the promise of
\* call i-1 (result.catch(() => {})) has settled; the first call is
\* chained on Promise.resolve()
CanStart(i) == IF i = 1 THEN TRUE ELSE Settled(callState[i - 1])

\* classify(): chains the call on the queue and returns its promise
Classify ==
  /\ Len(callState) < MaxCalls
  /\ callState' = Append(callState, "queued")
  /\ UNCHANGED <<initPromise, initPc, hasModelData, config, session, configFetches,
                 modelFetches, waiters, running, runLog, patchLog, doneLog>>
  /\ UNCHANGED exceptCls

\* the queued body starts: await this._ensureInitialized()
CallStart(i) ==
  /\ i \in 1..Len(callState)
  /\ callState[i] = "queued"
  /\ CanStart(i)
  /\ initialize(FALSE)
  /\ callState' = [callState EXCEPT ![i] = "init"]
  /\ UNCHANGED <<config, session, modelFetches, waiters, running, runLog, patchLog, doneLog>>
  /\ UNCHANGED exceptCls

\* _ensureInitialized returns or throws; on success _doClassify calls
\* patch(), which calls _ensureInitialized() (and so initialize()) again
CallInitialized(i) ==
  /\ i \in 1..Len(callState)
  /\ callState[i] = "init"
  /\ initPromise \in {"fulfilled", "rejected"}
  /\ IF initPromise = "fulfilled" /\ session /\ config
     THEN /\ initialize(FALSE)
          /\ callState' = [callState EXCEPT ![i] = "patch"]
          /\ UNCHANGED doneLog
     ELSE /\ callState' = [callState EXCEPT ![i] = "rejected"]
          /\ doneLog' = Append(doneLog, i)
          /\ UNCHANGED <<initPromise, initPc, hasModelData, configFetches>>
  /\ UNCHANGED <<config, session, modelFetches, waiters, running, runLog, patchLog>>
  /\ UNCHANGED exceptCls

\* what ctx.drawImage does: it draws, or throws InvalidStateError because
\* the ImageBitmap was closed or transferred (detached), or throws
\* something else
DrawOutcomes == {"drawn", "detached", "failed"}

\* patch() without the try/catch around drawImage
patchUncaught(hasCtx, draw) ==
  IF ~hasCtx THEN "null"
  ELSE IF draw = "drawn" THEN "canvas"
  ELSE "throw"

\* patch() after _ensureInitialized: null without a 2d context, the canvas
\* when drawImage succeeds, null from either branch of the catch
patch(hasCtx, draw) ==
  IF ~hasCtx THEN "null"
  ELSE IF draw = "drawn" THEN "canvas"
  ELSE IF draw = "detached" THEN "null"
  ELSE "null"

\* _doClassify awaits patch(): a canvas goes on to _preprocess; null makes
\* it throw "Failed to extract patch"; an exception of patch() propagates
PatchDone(i, hasCtx, draw) ==
  /\ i \in 1..Len(callState)
  /\ callState[i] = "patch"
  /\ patchLog' = Append(patchLog, [call |-> i, draw |-> IF hasCtx THEN draw ELSE "noctx",
                                    result |-> patch(hasCtx, draw)])
  /\ IF patch(hasCtx, draw) = "canvas"
     THEN callState' = [callState EXCEPT ![i] = "pre"] /\ UNCHANGED doneLog
     ELSE callState' = [callState EXCEPT ![i] = "rejected"] /\ doneLog' = Append(doneLog, i)
  /\ UNCHANGED <<initPromise, initPc, hasModelData, config, session, configFetches,
                 modelFetches, waiters, running, runLog>>
  /\ UNCHANGED exceptCls

\* _preprocess returned the tensor; session.run(feeds) is invoked
RunStart(i) ==
  /\ i \in 1..Len(callState)
  /\ callState[i] = "pre"
  /\ callState' = [callState EXCEPT ![i] = "run"]
  /\ running' = running \cup {i}
  /\ runLog' = Append(runLog, i)
  /\ UNCHANGED <<initPromise, initPc, hasModelData, config, session, configFetches,
                 modelFetches, waiters, doneLog, patchLog>>
  /\ UNCHANGED exceptCls

\* session.run settles; on success the argmax label is returned
RunDone(i, ok) ==
  /\ i \in 1..Len(callState)
  /\ callState[i] = "run"
  /\ callState' = [callState EXCEPT ![i] = IF ok THEN "resolved" ELSE "rejected"]
  /\ running' = running \ {i}
  /\ doneLog' = Append(doneLog, i)
  /\ UNCHANGED <<initPromise, initPc, hasModelData, config, session, configFetches,
                 modelFetches, waiters, runLog, patchLog>>
  /\ UNCHANGED exceptCls

(***************************************************************************)
(* RrLiveView: worker lifecycle, capture loop, message handlers            *)
(***************************************************************************)
MarkerOrder == <<"m1", "m2">>          \* Object.entries order of the marker ids
MarkerIds   == {MarkerOrder[k] : k \in 1..Len(MarkerOrder)}
Labels      == {"track", "train"}

\* a calibrated layout: p1 = (1,1), p2 = (2,1), 1 mm apart, scale HO
CalibratedLayout ==
  [p1x |-> Num(1), p1y |-> Num(1), p2x |-> Num(2), p2y |-> Num(1),
   referenceDistanceMm |-> Num(1), scale |-> "HO"]

\* rr-settings.ts: export const LIVE_DISPLAY_UPDATE_INTERVAL_MS = 2000
LIVE_DISPLAY_UPDATE_INTERVAL_MS == 2000

\* Math.round(duration) values the worker may report for a batch
InferenceTimes == {5, 7}
\* amounts by which performance.now() advances between two events
TimeSteps == {1000, 1999}

NoPublish == [frame |-> 0, markers |-> {}, inferenceTimeMs |-> 0, reportedMs |-> 0]

\* _displayState = { markers: [], tTotMs: 0, inferenceTimeMs: 0, executionProvider: '' }
DisplayInitState ==
  /\ now = 0
  /\ lastDisplayUpdateTime = 0
  /\ displayState = [markers |-> {}, inferenceTimeMs |-> 0]
  /\ displayLog = <<>>
  /\ mqttClient = "null"
  /\ published = NoPublish

\* private _stream: MediaStream | null = null; no loop callback has run
CamInitState ==
  /\ stream = FALSE
  /\ lastTick = "none"

NoBatch == [frame |-> 0, markers |-> {}, pending |-> <<>>, results |-> {}, succeeded |-> {}]

InitMsg(pair) == [type |-> "init", frame |-> 0, markers |-> {}, dpt |-> 0, pair |-> pair]
BatchMsg(f, ms, d) ==
  [type |-> "classify-batch", frame |-> f, markers |-> ms, dpt |-> d, pair |-> 0]
Reply(t, f, rs, ms) == [type |-> t, frame |-> f, results |-> rs, inferenceTimeMs |-> ms]

IsBatch(m) == m.type = "classify-batch"

\* a fresh worker global scope: let classifier = null; let isBusy = false
WorkerFresh ==
  /\ wClassifier' = "null"
  /\ wInit' = "none"
  /\ wPair' = 0
  /\ wLoads' = 0
  /\ wOldInits' = 0
  /\ wIsBusy' = FALSE
  /\ wBatch' = NoBatch

LiveInitState ==
  /\ isConnected = FALSE
  /\ liveClassifier = 0
  /\ markersData = Undef
  /\ worker = 0
  /\ workersMade = 0
  /\ isWorkerBusy = FALSE
  /\ loopId = FALSE
  /\ rafPending = FALSE
  /\ connecting = 0
  /\ capturing = FALSE
  /\ frames = <<>>
  /\ toWorker = <<>>
  /\ toMain = <<>>
  /\ wClassifier = "null"
  /\ wInit = "none"
  /\ wPair = 0
  /\ wLoads = 0
  /\ wOldInits = 0
  /\ wIsBusy = FALSE
  /\ wBatch = NoBatch
  /\ DisplayInitState
  /\ CamInitState

\* rr-main provides a Classifier through the context once the settings
\* name a (model, precision) pair
handleClassifierSettingsChange(pair) ==
  /\ liveClassifier # pair
  /\ liveClassifier' = pair
  /\ UNCHANGED <<isConnected, markersData, worker, workersMade, isWorkerBusy, loopId,
                 rafPending, connecting, capturing>>
  /\ UNCHANGED <<chanVars, wrkVars, layout>>
  /\ UNCHANGED exceptLive
  /\ UNCHANGED camVars
  /\ UNCHANGED dispVars

\* connectedCallback up to await this._startCamera(): _initWorker creates
\* the worker and posts init only if a classifier is present; _initMqtt
\* creates the client, which starts connecting
connectedCallback ==
  /\ ~isConnected
  /\ connecting < MaxConnecting
  /\ worker = 0 => workersMade < MaxWorkers
  /\ isConnected' = TRUE
  /\ connecting' = connecting + 1
  /\ IF worker # 0
     THEN UNCHANGED <<worker, workersMade, toWorker, toMain, wrkVars>>
     ELSE /\ worker' = workersMade + 1
          /\ workersMade' = workersMade + 1
          /\ toWorker' = IF liveClassifier # 0 THEN <<InitMsg(liveClassifier)>> ELSE <<>>
          /\ toMain' = <<>>
          /\ WorkerFresh
  /\ mqttClient' = IF mqttClient = "null" THEN "connecting" ELSE mqttClient
  /\ UNCHANGED <<liveClassifier, markersData, isWorkerBusy, loopId, rafPending,
                 capturing, frames, layout>>
  /\ UNCHANGED <<now, lastDisplayUpdateTime, displayState, displayLog, published>>
  /\ UNCHANGED exceptLive
  /\ UNCHANGED camVars

\* connectedCallback from the point where getCameraStream() resolves:
\* _startCamera stores the stream it was granted, then _startLoop arms the
\* loop unless _loopId is set
CameraStarted ==
  /\ connecting > 0
  /\ connecting' = connecting - 1
  /\ stream' = TRUE
  /\ IF loopId
     THEN UNCHANGED <<loopId, rafPending>>
     ELSE loopId' = TRUE /\ rafPending' = TRUE
  /\ UNCHANGED <<isConnected, liveClassifier, markersData, worker, workersMade,
                 isWorkerBusy, capturing, lastTick>>
  /\ UNCHANGED <<chanVars, wrkVars, layout>>
  /\ UNCHANGED exceptLive
  /\ UNCHANGED dispVars

\* disconnectedCallback: _stopCamera, _stopLoop, _terminateWorker and
\* _terminateMqtt; terminating discards the worker, its pending messages
\* and the frames it holds
disconnectedCallback ==
  /\ isConnected
  /\ isConnected' = FALSE
  /\ stream' = FALSE
  /\ UNCHANGED lastTick
  /\ loopId' = FALSE
  /\ rafPending' = IF loopId THEN FALSE ELSE rafPending
  /\ worker' = 0
  /\ toWorker' = <<>>
  /\ toMain' = <<>>
  /\ frames' = [f \in 1..Len(frames) |->
                  IF frames[f].st \in {"sent", "worker"}
                  THEN [frames[f] EXCEPT !.st = "lost"] ELSE frames[f]]
  /\ WorkerFresh
  /\ mqttClient' = "null"
  /\ UNCHANGED <<liveClassifier, markersData, workersMade, isWorkerBusy, connecting,
                 capturing, layout>>
  /\ UNCHANGED <<now, lastDisplayUpdateTime, displayState, displayLog, published>>
  /\ UNCHANGED exceptLive

\* the loop condition with the busy test left out
ShouldCaptureAlways(ready) == ready

\* loop: !this._isWorkerBusy && this._video && this._video.readyState >= 2
ShouldCapture(ready) == ~isWorkerBusy /\ ready

\* the early returns of _sendFrameToWorker
SendGuardsPass ==
  /\ markersData # Undef
  /\ worker # 0
  /\ dots_per_track(layout) > 0

\* a tick that clears a busy flag it finds set (a watchdog)
IdleTickBusyTimeout == FALSE

\* the busy flag after a tick that does not capture: the loop has no
\* timeout, the flag is left as it is
IdleTickBusy == isWorkerBusy

\* a loop that schedules its next callback only when it captures
RearmsAfterCapture(captures) == captures

\* this._loopId = requestAnimationFrame(loop) is the last statement of a
\* connected callback, whatever the capture test gave
Rearms(captures) == TRUE

\* one requestAnimationFrame callback of the loop, with the synchronous
\* part of _sendFrameToWorker (up to await createImageBitmap)
LoopTick(ready) ==
  /\ rafPending
  /\ IF ~isConnected
     THEN /\ rafPending' = FALSE
          /\ lastTick' = "stopped"
          /\ UNCHANGED <<isWorkerBusy, capturing, loopId>>
     ELSE /\ rafPending' = Rearms(ShouldCapture(ready))
          /\ loopId' = Rearms(ShouldCapture(ready))
          /\ IF ShouldCapture(ready) /\ SendGuardsPass
             THEN /\ Len(frames) < MaxFrames
                  /\ isWorkerBusy' = TRUE
                  /\ capturing' = TRUE
                  /\ lastTick' = "captured"
             ELSE /\ isWorkerBusy' = IdleTickBusy
                  /\ lastTick' = IF isWorkerBusy THEN "busy" ELSE "idle"
                  /\ UNCHANGED capturing
  /\ UNCHANGED <<isConnected, liveClassifier, markersData, worker, workersMade, connecting,
                 stream>>
  /\ UNCHANGED <<chanVars, wrkVars, layout>>
  /\ UNCHANGED exceptLive
  /\ UNCHANGED dispVars

\* a frame as createImageBitmap returns it: open, owned by the interactive
\* thread; foreign records a use by a thread that does not own the frame;
\* labelled and succeeded record, once the worker posted results for the
\* frame, the marker ids in the message and those whose classify resolved
NewFrame == [st |-> "leaked", answers |-> 0, owner |-> "main", foreign |-> FALSE,
             labelled |-> {}, succeeded |-> {}]

\* _sendFrameToWorker closing the bitmap after it has posted it
sendFrameUsesCloseAfterPost == <<"post", "close">>

\* the uses _sendFrameToWorker makes of the bitmap it created, in order:
\* only postMessage, with the bitmap in the transfer list
sendFrameUses == <<"post">>

\* the frame after the interactive thread made the uses us of it; a
\* transfer hands the frame to the worker
RECURSIVE MainUses(_, _)
MainUses(fr, us) ==
  IF us = <<>> THEN fr
  ELSE LET u == Head(us)
           next == IF fr.owner # "main" THEN [fr EXCEPT !.foreign = TRUE]
                   ELSE IF u = "post" THEN [fr EXCEPT !.owner = "worker", !.st = "sent"]
                   ELSE [fr EXCEPT !.st = "closed"]
       IN MainUses(next, Tail(us))

\* the frame after the worker read, drew or closed it
WorkerUse(fr) == [fr EXCEPT !.foreign = @ \/ fr.owner # "worker"]

\* _sendFrameToWorker after the await: the bitmap is posted (transferred),
\* or the catch clears the busy flag (createImageBitmap rejected, or
\* this._worker is null by now, so that postMessage is never reached)
CaptureDone(ok) ==
  /\ capturing
  /\ capturing' = FALSE
  /\ IF ~ok
     THEN /\ isWorkerBusy' = FALSE
          /\ UNCHANGED <<frames, toWorker>>
     ELSE IF worker = 0
     THEN /\ isWorkerBusy' = FALSE
          /\ frames' = Append(frames, NewFrame)
          /\ UNCHANGED toWorker
     ELSE /\ frames' = Append(frames, MainUses(NewFrame, sendFrameUses))
          /\ toWorker' = Append(toWorker,
                BatchMsg(Len(frames) + 1, markersData[1], dots_per_track(layout)))
          /\ UNCHANGED isWorkerBusy
  /\ UNCHANGED <<isConnected, liveClassifier, markersData, worker, workersMade, loopId,
                 rafPending, connecting, toMain>>
  /\ UNCHANGED <<wrkVars, layout>>
  /\ UNCHANGED exceptLive
  /\ UNCHANGED camVars
  /\ UNCHANGED dispVars

\* the throttle of _handleWorkerResults with the interval test left out
DisplayDueAlways(t) == TRUE

\* now - this._lastDisplayUpdateTime >= LIVE_DISPLAY_UPDATE_INTERVAL_MS
DisplayDue(t) == t - lastDisplayUpdateTime >= LIVE_DISPLAY_UPDATE_INTERVAL_MS

\* _handleWorkerResults after clearing the busy flag: nothing more without
\* markers; else the display state is replaced when the interval has
\* elapsed, and the batch is handed to _publishResults, which publishes
\* when the client is connected, taking inferenceTimeMs from _displayState
handleWorkerResults(m) ==
  IF markersData = Undef
  THEN UNCHANGED <<lastDisplayUpdateTime, displayState, displayLog, published>>
  ELSE /\ IF DisplayDue(now)
          THEN /\ lastDisplayUpdateTime' = now
               /\ displayState' = [markers |-> m.results, inferenceTimeMs |-> m.inferenceTimeMs]
               /\ displayLog' = Append(displayLog, now)
          ELSE UNCHANGED <<lastDisplayUpdateTime, displayState, displayLog>>
       /\ IF mqttClient = "connected"
          THEN published' = [frame |-> m.frame, markers |-> m.results,
                             inferenceTimeMs |-> displayState'.inferenceTimeMs,
                             reportedMs |-> m.inferenceTimeMs]
          ELSE UNCHANGED published

\* this._worker.onmessage: results go to _handleWorkerResults, which
\* clears the busy flag; an error is logged; init-ok is ignored
MainReceive ==
  /\ toMain # <<>>
  /\ toMain' = Tail(toMain)
  /\ IF Head(toMain).type = "results"
     THEN /\ isWorkerBusy' = FALSE
          /\ handleWorkerResults(Head(toMain))
     ELSE UNCHANGED <<isWorkerBusy, lastDisplayUpdateTime, displayState, displayLog, published>>
  /\ UNCHANGED <<isConnected, liveClassifier, markersData, worker, workersMade, loopId,
                 rafPending, connecting, capturing, frames, toWorker>>
  /\ UNCHANGED <<now, mqttClient>>
  /\ UNCHANGED <<wrkVars, layout>>
  /\ UNCHANGED exceptLive
  /\ UNCHANGED camVars

\* the MQTT client's 'connect' event: client.connected becomes true
MqttConnected ==
  /\ mqttClient = "connecting"
  /\ mqttClient' = "connected"
  /\ UNCHANGED <<now, lastDisplayUpdateTime, displayState, displayLog, published>>
  /\ UNCHANGED <<mainVars, chanVars, wrkVars, layout>>
  /\ UNCHANGED exceptLive
  /\ UNCHANGED camVars

\* performance.now() is monotonic: time passes between two events
TimePasses(d) ==
  /\ now + d <= MaxSeconds * 1000
  /\ now' = now + d
  /\ UNCHANGED <<lastDisplayUpdateTime, displayState, displayLog, mqttClient, published>>
  /\ UNCHANGED <<mainVars, chanVars, wrkVars, layout>>
  /\ UNCHANGED exceptLive
  /\ UNCHANGED camVars

(***************************************************************************)
(* classifier.worker: self.onmessage                                       *)
(***************************************************************************)
PendingOf(ms) == SelectSeq(MarkerOrder, LAMBDA id : id \in ms)

\* case 'init' up to the await: classifier = new Classifier(model,
\* precision), whatever the worker held before; a handler still awaiting an
\* earlier classifier goes on awaiting that one
initHandler(pair) ==
  /\ wClassifier' = "loading"
  /\ wInit' = "awaiting"
  /\ wPair' = pair
  /\ wLoads' = wLoads + 1
  /\ wOldInits' = wOldInits + (IF wInit = "awaiting" THEN 1 ELSE 0)

\* the handler takes the next message: init constructs a Classifier and
\* awaits initialize(); classify-batch returns at once when there is no
\* classifier or a batch is running, else it issues one classify per marker
WorkerReceive ==
  /\ toWorker # <<>>
  /\ toWorker' = Tail(toWorker)
  /\ LET m == Head(toWorker)
     IN IF m.type = "init"
        THEN /\ initHandler(m.pair)
             /\ UNCHANGED <<wIsBusy, wBatch, frames>>
        ELSE IF wClassifier = "null" \/ wIsBusy
        THEN /\ frames' = [frames EXCEPT ![m.frame].st = "unreleased"]
             /\ UNCHANGED wrkVars
        ELSE /\ wIsBusy' = TRUE
             /\ wBatch' = [frame |-> m.frame, markers |-> m.markers,
                           pending |-> PendingOf(m.markers), results |-> {},
                           succeeded |-> {}]
             /\ frames' = [frames EXCEPT ![m.frame].st = "worker"]
             /\ UNCHANGED <<wClassifier, wInit, wPair, wLoads, wOldInits>>
  /\ UNCHANGED <<mainVars, toMain, layout>>
  /\ UNCHANGED exceptLive
  /\ UNCHANGED camVars
  /\ UNCHANGED dispVars

\* init: classifier.initialize() settles; the handler answers init-ok or error
WorkerInitSettled(ok) ==
  /\ wInit = "awaiting"
  /\ wInit' = "answered"
  /\ wClassifier' = IF ok THEN "ready" ELSE "failed"
  /\ toMain' = Append(toMain, Reply(IF ok THEN "init-ok" ELSE "error", 0, {}, 0))
  /\ UNCHANGED <<wPair, wLoads, wOldInits, wIsBusy, wBatch, frames, toWorker>>
  /\ UNCHANGED <<mainVars, layout>>
  /\ UNCHANGED exceptLive
  /\ UNCHANGED camVars
  /\ UNCHANGED dispVars

\* init: the initialize() of a classifier that a later init has replaced
\* settles; its handler answers init-ok or error
WorkerOldInitSettled(ok) ==
  /\ wOldInits > 0
  /\ wOldInits' = wOldInits - 1
  /\ toMain' = Append(toMain, Reply(IF ok THEN "init-ok" ELSE "error", 0, {}, 0))
  /\ UNCHANGED <<wClassifier, wInit, wPair, wLoads, wIsBusy, wBatch, frames, toWorker>>
  /\ UNCHANGED <<mainVars, layout>>
  /\ UNCHANGED exceptLive
  /\ UNCHANGED camVars
  /\ UNCHANGED dispVars

\* the thread that created the worker posts { type: 'init', payload:
\* { model, precision } } to it
PostInit(pair) ==
  /\ wLoads + Len(toWorker) < MaxInits
  /\ toWorker' = Append(toWorker, InitMsg(pair))
  /\ UNCHANGED <<frames, toMain>>
  /\ UNCHANGED <<mainVars, wrkVars, layout>>
  /\ UNCHANGED exceptLive
  /\ UNCHANGED camVars
  /\ UNCHANGED dispVars

\* a handler that stores the outcome of a failed call as well
resultsAfterUnguarded(results, id, ok, label) == results \cup {<<id, label>>}

\* results[id] = prediction after a resolved classify; the catch of a
\* rejected one only logs
resultsAfter(results, id, ok, label) ==
  IF ok THEN results \cup {<<id, label>>} ELSE results

\* the next classify call of the batch settles (the Classifier serves them
\* in order, after its load); a rejection is caught and logged per marker
WorkerClassifyOne(ok, label) ==
  /\ wBatch.frame # 0
  /\ wBatch.pending # <<>>
  /\ wClassifier \in {"ready", "failed"}
  /\ wBatch' = [wBatch EXCEPT
       !.pending = Tail(@),
       !.results = resultsAfter(@, Head(wBatch.pending), ok /\ wClassifier = "ready", label),
       !.succeeded = IF ok /\ wClassifier = "ready"
                     THEN @ \cup {Head(wBatch.pending)} ELSE @]
  /\ frames' = [frames EXCEPT ![wBatch.frame] = WorkerUse(@)]
  /\ UNCHANGED <<wClassifier, wInit, wPair, wLoads, wOldInits, wIsBusy>>
  /\ UNCHANGED <<mainVars, toWorker, toMain, layout>>
  /\ UNCHANGED exceptLive
  /\ UNCHANGED camVars
  /\ UNCHANGED dispVars

\* Promise.all resolved: the bitmap is closed, results are posted with
\* inferenceTimeMs = Math.round(duration), and finally isBusy is cleared
WorkerBatchDone(ms) ==
  /\ wBatch.frame # 0
  /\ wBatch.pending = <<>>
  /\ frames' = [frames EXCEPT ![wBatch.frame] =
                  [WorkerUse(@) EXCEPT !.st = "closed", !.answers = @ + 1,
                                       !.labelled = {r[1] : r \in wBatch.results},
                                       !.succeeded = wBatch.succeeded]]
  /\ toMain' = Append(toMain, Reply("results", wBatch.frame, wBatch.results, ms))
  /\ wIsBusy' = FALSE
  /\ wBatch' = NoBatch
  /\ UNCHANGED <<wClassifier, wInit, wPair, wLoads, wOldInits, toWorker>>
  /\ UNCHANGED <<mainVars, layout>>
  /\ UNCHANGED exceptLive
  /\ UNCHANGED camVars
  /\ UNCHANGED dispVars

\* an exception inside the try block: either before any classify call was
\* made (the bitmap is still open) or in postMessage after close(); the
\* catch posts error and finally clears isBusy
WorkerBatchThrows(atPost) ==
  /\ wBatch.frame # 0
  /\ IF atPost THEN wBatch.pending = <<>>
               ELSE wBatch.pending = PendingOf(wBatch.markers)
  /\ frames' = [frames EXCEPT ![wBatch.frame] =
                  IF atPost
                  THEN [WorkerUse(@) EXCEPT !.st = "closed", !.answers = @ + 1]
                  ELSE [@ EXCEPT !.st = "unreleased", !.answers = @ + 1]]
  /\ toMain' = Append(toMain, Reply("error", wBatch.frame, {}, 0))
  /\ wIsBusy' = FALSE
  /\ wBatch' = NoBatch
  /\ UNCHANGED <<wClassifier, wInit, wPair, wLoads, wOldInits, toWorker>>
  /\ UNCHANGED <<mainVars, layout>>
  /\ UNCHANGED exceptLive
  /\ UNCHANGED camVars
  /\ UNCHANGED dispVars

(***************************************************************************)
(* RrMarker: editor validation loop                                        *)
(***************************************************************************)
Images       == 0..1         \* the layout has two images
CalibEdClassifiers == 1..2
EdClassifiers == 1..1        \* Classifier instances provided to the editor
MarkerTypes  == {"track"}    \* the marker tool in use
Positions    == 0..1         \* marker x coordinates (y is 0 throughout)

Restrict(f, D) == [k \in D |-> f[k]]
Put(f, k, v)   == [j \in (DOMAIN f) \cup {k} |-> IF j = k THEN v ELSE f[j]]
NoResults      == [k \in {} |-> 0]

EdInitState ==
  /\ imageIndex = 0 - 1
  /\ imageBitmap = 0 - 1
  /\ bitmapLoads = {}
  /\ cachedBitmaps = {}
  /\ edClassifier = 0
  /\ dragHandle = FALSE
  /\ edMarkers = [i \in Images |->
                    IF i = 0 THEN [k \in {"m1"} |-> [x |-> 0, y |-> 0, type |-> "track"]]
                    ELSE NoResults]
  /\ usedIds = {"m1"}
  /\ validationResults = NoResults
  /\ markerValidationRequests = [id \in MarkerIds |-> 0]
  /\ passes = NoResults
  /\ passCount = 0
  /\ edCalls = <<>>
  /\ staleSeen = FALSE
  /\ dptUsed = {}

\* the memoization test: a stored result with the marker's x, y and type
Memoized(vr, id, m) ==
  /\ id \in DOMAIN vr
  /\ vr[id].x = m.x /\ vr[id].y = m.y /\ vr[id].type = m.type

\* the early returns of validateMarkers
ValidateGuardsPass(idx, bmp, cls, drag) ==
  /\ ~drag
  /\ idx \in Images
  /\ bmp # 0 - 1
  /\ cls # 0
  /\ dots_per_track(layout') > 0

\* the tail of validateMarkers after Promise.all: prune the ids that are
\* not in the pass's marker set, and store the map if something changed
\* and the pass is still for the displayed image and no drag is under way
PassCommit(vr, newResults, changed, ids, passIdx, idx, drag) ==
  LET pruned == Restrict(newResults, (DOMAIN newResults) \cap ids)
  IN IF (changed \/ pruned # newResults) /\ idx = passIdx /\ ~drag
     THEN pruned ELSE vr

\* a request number that starts again at 1 for every evaluation
NextRequestIdRestarts(latest) == 1

\* const requestId = (this._markerValidationRequests[id] || 0) + 1, for
\* the stored latest number of the id (0 when none is stored)
NextRequestId(latest) == latest + 1

\* validateMarkers up to await Promise.all(tasks), on the values the
\* element has when updated() runs: idx, bmp, cls, drag, and vr for
\* this.validationResults
validateMarkers(vr, idx, bmp, cls, drag) ==
  IF ~ValidateGuardsPass(idx, bmp, cls, drag)
  THEN /\ validationResults' = vr
       /\ UNCHANGED <<markerValidationRequests, passes, passCount, edCalls, dptUsed>>
  ELSE LET ms   == edMarkers'[idx]
           need == {id \in DOMAIN ms : ~Memoized(vr, id, ms[id])}
           order == SelectSeq(MarkerOrder, LAMBDA id : id \in need)
           p    == passCount + 1
       IN IF need = {}
          THEN /\ validationResults' = PassCommit(vr, vr, FALSE, DOMAIN ms, idx, idx, drag)
               /\ UNCHANGED <<markerValidationRequests, passes, passCount, edCalls, dptUsed>>
          ELSE /\ passCount < MaxPasses
               /\ validationResults' = vr
               /\ dptUsed' = dptUsed \cup {dots_per_track(layout')}
               /\ markerValidationRequests' =
                    [id \in MarkerIds |-> IF id \in need
                                          THEN NextRequestId(markerValidationRequests[id])
                                          ELSE markerValidationRequests[id]]
               /\ passCount' = p
               /\ passes' = Put(passes, p,
                    [imageIndex |-> idx, ids |-> DOMAIN ms, newResults |-> vr,
                     resultsChanged |-> FALSE, left |-> need,
                     memo |-> (DOMAIN ms) \ need,
                     removed |-> IF idx = imageIndex
                                 THEN (DOMAIN edMarkers[idx]) \ (DOMAIN ms) ELSE {}])
               /\ edCalls' = edCalls \o
                    [k \in 1..Len(order) |->
                       [pass |-> p, id |-> order[k],
                        requestId |-> NextRequestId(markerValidationRequests[order[k]]),
                        x |-> ms[order[k]].x, y |-> ms[order[k]].y,
                        type |-> ms[order[k]].type, cls |-> cls, bitmap |-> bmp]]

\* updated(): validate when classifier, _imageBitmap, layout or dragHandle
\* changed and a bitmap is held and no drag is under way
updated(vr, idx, bmp, cls, drag) ==
  IF bmp # 0 - 1 /\ ~drag
  THEN validateMarkers(vr, idx, bmp, cls, drag)
  ELSE /\ validationResults' = vr
       /\ UNCHANGED <<markerValidationRequests, passes, passCount, edCalls, dptUsed>>

\* _updateImage: with an image selected it awaits LayoutImage.getBitmap(),
\* which answers at once (same turn of the event loop) when the bitmap is
\* cached and else after the blob was fetched and decoded
UpdateImageLoads(idx) ==
  IF idx \in Images /\ idx \notin cachedBitmaps THEN bitmapLoads \cup {idx} ELSE bitmapLoads

\* the bitmap held once _updateImage(idx) has run as far as it can without
\* a fetch, given that bmp was held before
UpdateImageBitmap(idx, bmp) ==
  IF idx \in Images /\ idx \in cachedBitmaps THEN idx
  ELSE IF idx \in Images THEN bmp ELSE 0 - 1

\* the imageIndex property changes: willUpdate clears the results and the
\* bitmap and calls _updateImage; updated() finds no bitmap; when the
\* cached bitmap arrives, updated() validates
SelectImage(i) ==
  /\ i # imageIndex
  /\ layout' = layout
  /\ imageIndex' = i
  /\ imageBitmap' = UpdateImageBitmap(i, 0 - 1)
  /\ bitmapLoads' = UpdateImageLoads(i)
  /\ edMarkers' = edMarkers
  /\ updated(NoResults, i, UpdateImageBitmap(i, 0 - 1), edClassifier, dragHandle)
  /\ UNCHANGED <<cachedBitmaps, edClassifier, dragHandle, usedIds>>
  /\ UNCHANGED <<clsVars, liveVars, dptOut, staleSeen, srvVars, fnVars>>

\* _updateImage after await layoutImg.getBitmap() had to fetch: the bitmap
\* is stored, whatever image is selected by now; a changed _imageBitmap
\* makes updated() validate
BitmapLoaded(i) ==
  /\ i \in bitmapLoads
  /\ layout' = layout
  /\ bitmapLoads' = bitmapLoads \ {i}
  /\ cachedBitmaps' = cachedBitmaps \cup {i}
  /\ imageBitmap' = i
  /\ edMarkers' = edMarkers
  /\ IF imageBitmap # i
     THEN updated(validationResults, imageIndex, i, edClassifier, dragHandle)
     ELSE UNCHANGED <<validationResults, markerValidationRequests, passes, passCount, edCalls,
                      dptUsed>>
  /\ UNCHANGED <<imageIndex, edClassifier, dragHandle, usedIds>>
  /\ UNCHANGED <<clsVars, liveVars, dptOut, staleSeen, srvVars, fnVars>>

\* the classifier property changes: willUpdate clears the results and calls
\* _updateImage; updated() validates
ClassifierChanged(c) ==
  /\ c # edClassifier
  /\ layout' = layout
  /\ edClassifier' = c
  /\ bitmapLoads' = UpdateImageLoads(imageIndex)
  /\ imageBitmap' = UpdateImageBitmap(imageIndex, imageBitmap)
  /\ edMarkers' = edMarkers
  /\ updated(NoResults, imageIndex, UpdateImageBitmap(imageIndex, imageBitmap), c, dragHandle)
  /\ UNCHANGED <<imageIndex, cachedBitmaps, dragHandle, usedIds>>
  /\ UNCHANGED <<clsVars, liveVars, dptOut, staleSeen, srvVars, fnVars>>

\* the layout property changes (rr-main provides a new Layout after every
\* rr-layout-changed event): willUpdate calls _updateImage; updated()
\* validates against the new layout
LayoutChanged ==
  /\ bitmapLoads' = UpdateImageLoads(imageIndex)
  /\ imageBitmap' = UpdateImageBitmap(imageIndex, imageBitmap)
  /\ updated(validationResults, imageIndex, UpdateImageBitmap(imageIndex, imageBitmap),
             edClassifier, dragHandle)
  /\ UNCHANGED <<imageIndex, cachedBitmaps, edClassifier, dragHandle>>
  /\ UNCHANGED <<clsVars, liveVars, dptOut, staleSeen, srvVars, fnVars>>

\* layout.setMarker on an existing marker (handleMouseMove while dragging)
MoveMarker(id, x) ==
  /\ layout' = layout
  /\ imageIndex \in Images
  /\ dragHandle
  /\ id \in DOMAIN edMarkers[imageIndex]
  /\ edMarkers[imageIndex][id].x # x
  /\ edMarkers' = [edMarkers EXCEPT ![imageIndex][id].x = x]
  /\ UNCHANGED usedIds
  /\ LayoutChanged

\* layout.setMarker with a fresh id (handleClick with a marker tool)
AddMarker(id, x, type) ==
  /\ layout' = layout
  /\ imageIndex \in Images
  /\ ~dragHandle
  /\ id \notin usedIds
  /\ edMarkers' = [edMarkers EXCEPT ![imageIndex] = Put(@, id, [x |-> x, y |-> 0, type |-> type])]
  /\ usedIds' = usedIds \cup {id}
  /\ LayoutChanged

\* layout.deleteMarker (handleMouseDown with the delete tool)
DeleteMarker(id) ==
  /\ layout' = layout
  /\ imageIndex \in Images
  /\ id \in DOMAIN edMarkers[imageIndex]
  /\ edMarkers' = [edMarkers EXCEPT ![imageIndex] = Restrict(@, (DOMAIN @) \ {id})]
  /\ UNCHANGED usedIds
  /\ LayoutChanged

\* handleMouseDown on a marker sets dragHandle, handleClick after a drag
\* clears it; updated() validates when the drag has ended
SetDragHandle(d) ==
  /\ d # dragHandle
  /\ layout' = layout
  /\ d => (imageIndex \in Images /\ DOMAIN edMarkers[imageIndex] # {})
  /\ dragHandle' = d
  /\ edMarkers' = edMarkers
  /\ updated(validationResults, imageIndex, imageBitmap, edClassifier, d)
  /\ UNCHANGED <<imageIndex, imageBitmap, bitmapLoads, cachedBitmaps, edClassifier,
                 usedIds>>
  /\ UNCHANGED <<clsVars, liveVars, dptOut, staleSeen, srvVars, fnVars>>

\* the reference distance is edited while the editor shows the layout
\* (Layout.setReferenceDistance, then the layout property changes)
CalibrationChanged(mm) ==
  /\ layout.referenceDistanceMm # Num(mm)
  /\ layout' = [layout EXCEPT !.referenceDistanceMm = Num(mm)]
  /\ edMarkers' = edMarkers
  /\ UNCHANGED usedIds
  /\ LayoutChanged

\* debugClick (handleClick with the debug tool): with a bitmap and a
\* classifier it reads layout.dots_per_track and calls classifier.patch
\* with it; when the patch is not null it calls classifier.classify with
\* the same value and shows the label in the popup
debugClick ==
  /\ ~dragHandle
  /\ imageBitmap # 0 - 1
  /\ edClassifier # 0
  /\ dptUsed' = dptUsed \cup {dots_per_track(layout)}
  /\ UNCHANGED <<imageIndex, imageBitmap, bitmapLoads, cachedBitmaps, edClassifier,
                 dragHandle, edMarkers, usedIds, validationResults,
                 markerValidationRequests, passes, passCount, edCalls, staleSeen, layout>>
  /\ UNCHANGED <<clsVars, liveVars, dptOut, srvVars, fnVars>>

\* the guard with the request-number test left out
IsStaleIndexOnly(c, p) == imageIndex # p.imageIndex

\* "Guard against stale results"
IsStale(c, p) ==
  imageIndex # p.imageIndex \/ markerValidationRequests[c.id] # c.requestId

\* a classify call settles (each Classifier serves its calls in order) and
\* the task continues; when it was the pass's last task, Promise.all
\* resolves and the pass commits
ResultArrives(k, ok, label) ==
  /\ k \in 1..Len(edCalls)
  /\ \A j \in 1..(k - 1) : edCalls[j].cls # edCalls[k].cls
  /\ LET c == edCalls[k]
         p == passes[c.pass]
         applied == ok /\ ~IsStale(c, p)
         newResults == IF applied
                       THEN Put(p.newResults, c.id,
                              [x |-> c.x, y |-> c.y, type |-> c.type,
                               match |-> (label = c.type), predicted |-> label,
                               req |-> c.requestId,
                               latest |-> markerValidationRequests[c.id],
                               present |-> c.id \in DOMAIN edMarkers[p.imageIndex]])
                       ELSE p.newResults
         changed == p.resultsChanged \/ applied
         left == p.left \ {c.id}
     IN /\ staleSeen' = (staleSeen \/ (ok /\ markerValidationRequests[c.id] # c.requestId))
        /\ edCalls' = [j \in 1..(Len(edCalls) - 1) |-> IF j < k THEN edCalls[j] ELSE edCalls[j + 1]]
        /\ IF left = {}
           THEN /\ passes' = Restrict(passes, (DOMAIN passes) \ {c.pass})
                /\ validationResults' =
                     PassCommit(validationResults, newResults, changed, p.ids,
                                p.imageIndex, imageIndex, dragHandle)
           ELSE /\ passes' = [passes EXCEPT ![c.pass] =
                     [@ EXCEPT !.newResults = newResults, !.resultsChanged = changed,
                               !.left = left]]
                /\ UNCHANGED validationResults
  /\ UNCHANGED <<imageIndex, imageBitmap, bitmapLoads, cachedBitmaps, edClassifier,
                 dragHandle, edMarkers, usedIds, markerValidationRequests, passCount, layout,
                 dptUsed>>
  /\ UNCHANGED <<clsVars, liveVars, dptOut, srvVars, fnVars>>

(***************************************************************************)
(* Pure functions: arguments and result of one call                        *)
(***************************************************************************)
NoArgs   == <<>>
NoResult == <<>>

\* JavaScript numbers as exact fractions <<numerator, denominator>>
Rat(n)       == <<n, 1>>
RatDiv(a, b) == <<a[1] * b[2], a[2] * b[1]>>
RatSub(a, b) == <<a[1] * b[2] - b[1] * a[2], a[2] * b[2]>>
RatEq(a, b)  == a[1] * b[2] = b[1] * a[2]

(***************************************************************************)
(* Classifier.patch: the source rectangle handed to drawImage              *)
(***************************************************************************)
ModelDpts == {14, 28}      \* ClassifierConfig.dpt
FrameDpts == {7, 14, 28}   \* img_dpt
CropSizes == {48, 96}      \* ClassifierConfig.cropSize
Centers   == 0..MaxCenter

PatchArgs ==
  [dpt : ModelDpts, cropSize : CropSizes, img_dpt : FrameDpts, x : Centers, y : Centers]

\* patch with the scale factor inverted (img_dpt / config.dpt)
patchInvertedScale(a) ==
  LET scaleFactor == RatDiv(Rat(a.img_dpt), Rat(a.dpt))
      dstSize == Rat(a.cropSize)
      srcSize == RatDiv(dstSize, scaleFactor)
  IN [scaleFactor |-> scaleFactor,
      sx |-> RatSub(Rat(a.x), RatDiv(srcSize, Rat(2))),
      sy |-> RatSub(Rat(a.y), RatDiv(srcSize, Rat(2))),
      sw |-> srcSize, sh |-> srcSize,
      dx |-> Rat(0), dy |-> Rat(0), dw |-> dstSize, dh |-> dstSize,
      width |-> dstSize, height |-> dstSize]

\* patch that takes the centre as the top-left corner of the source square
patchFromCorner(a) ==
  LET scaleFactor == RatDiv(Rat(a.dpt), Rat(a.img_dpt))
      dstSize == Rat(a.cropSize)
      srcSize == RatDiv(dstSize, scaleFactor)
  IN [scaleFactor |-> scaleFactor,
      sx |-> Rat(a.x),
      sy |-> Rat(a.y),
      sw |-> srcSize, sh |-> srcSize,
      dx |-> Rat(0), dy |-> Rat(0), dw |-> dstSize, dh |-> dstSize,
      width |-> dstSize, height |-> dstSize]

\* the geometry of patch(): the scale factor, the canvas size and the
\* arguments of ctx.drawImage(image, sx, sy, sw, sh, dx, dy, dw, dh)
patchRect(a) ==
  LET scaleFactor == RatDiv(Rat(a.dpt), Rat(a.img_dpt))
      dstSize == Rat(a.cropSize)
      srcSize == RatDiv(dstSize, scaleFactor)
  IN [scaleFactor |-> scaleFactor,
      sx |-> RatSub(Rat(a.x), RatDiv(srcSize, Rat(2))),
      sy |-> RatSub(Rat(a.y), RatDiv(srcSize, Rat(2))),
      sw |-> srcSize, sh |-> srcSize,
      dx |-> Rat(0), dy |-> Rat(0), dw |-> dstSize, dh |-> dstSize,
      width |-> dstSize, height |-> dstSize]

\* one call of patch() on an initialized Classifier
Patch ==
  /\ fnArgs \in PatchArgs
  /\ fnResult = NoResult
  /\ fnResult' = <<patchRect(fnArgs)>>
  /\ UNCHANGED fnArgs
  /\ UNCHANGED exceptFn

(***************************************************************************)
(* float32ToFloat16 on the int32 view x of one float32                     *)
(***************************************************************************)
F32Exponents == {0, 1, 112, 113, 127, 128, 142, 143, 254, 255}
F32Mantissas == {0, 1, 4095, 4096, 4097, 8191, 8192, 12288, 8388607}
Float32s == [sign : {0, 1}, exp : F32Exponents, man : F32Mantissas]

\* int32View[0] for the float32 with the given sign, exponent and mantissa
\* fields (two's complement, 32 bits)
Int32Of(f) ==
  LET v == f.exp * 2^23 + f.man
  IN IF f.sign = 1 THEN (v - 2^30) - 2^30 ELSE v

\* float32ToFloat16 with e > 31 as the overflow test
float32ToFloat16_gt(x) ==
  LET s == (((x \div 2^16) % 2^16) \div 2^15) * 2^15
      e == ((x \div 2^23) % 256) - 127 + 15
      m == (x \div 2^13) % 1024
  IN IF e <= 0 THEN s
     ELSE IF e > 31 THEN (s + 31744) % 2^16
     ELSE (s + e * 1024 + m) % 2^16

\* the loop body of float32ToFloat16: >> is the arithmetic shift (floor
\* division), & a mask of low bits, | a sum of disjoint bit fields, and
\* the store into the Uint16Array keeps 16 bits
float32ToFloat16(x) ==
  LET s == (((x \div 2^16) % 2^16) \div 2^15) * 2^15     \* (x >> 16) & 0x8000
      e == ((x \div 2^23) % 256) - 127 + 15               \* ((x >> 23) & 0xff) - 127 + 15
      m == (x \div 2^13) % 1024                           \* (x >> 13) & 0x03ff
  IN IF e <= 0 THEN s
     ELSE IF e >= 31 THEN (s + 31744) % 2^16               \* s | 0x7c00
     ELSE (s + e * 1024 + m) % 2^16                        \* s | (e << 10) | m

\* one element converted
Float32ToFloat16 ==
  /\ fnArgs \in Float32s
  /\ fnResult = NoResult
  /\ fnResult' = <<float32ToFloat16(Int32Of(fnArgs))>>
  /\ UNCHANGED fnArgs
  /\ UNCHANGED exceptFn

(***************************************************************************)
(* Server: POST /:layoutId/images of userUploadRoutes                      *)
(***************************************************************************)
\* shared/config.js is not among the sources; the limit is kept small here
MAX_IMAGES == 2

Requests == 1..MaxUploads

NoUpload == [pc |-> "idle", owner |-> FALSE, hasFile |-> FALSE, status |-> 0]

SrvInitState ==
  /\ imageRows = 0
  /\ storedFiles = 0
  /\ uploads = [r \in Requests |-> NoUpload]

SrvUnchanged ==
  /\ UNCHANGED exceptSrv

\* the request r ends with the given HTTP status
Respond(r, status) == uploads' = [uploads EXCEPT ![r].pc = "done", ![r].status = status]

\* a client sends POST /:layoutId/images; owner: the layout belongs to the
\* user, hasFile: the body has a file part. The handler runs up to its
\* first await (the layout lookup)
UploadRequest(r, owner, hasFile) ==
  /\ uploads[r].pc = "idle"
  /\ \A q \in Requests : q < r => uploads[q].pc # "idle"
  /\ uploads' = [uploads EXCEPT ![r] = [NoUpload EXCEPT !.pc = "lookup", !.owner = owner,
                                                        !.hasFile = hasFile]]
  /\ UNCHANGED <<imageRows, storedFiles>>
  /\ SrvUnchanged

\* Verify Ownership: 404 when the layout is not found for this user; else
\* the count query is issued
LayoutLookedUp(r) ==
  /\ uploads[r].pc = "lookup"
  /\ IF uploads[r].owner
     THEN uploads' = [uploads EXCEPT ![r].pc = "count"]
     ELSE Respond(r, 404)
  /\ UNCHANGED <<imageRows, storedFiles>>
  /\ SrvUnchanged

\* currentCount >= MAX_IMAGES
LimitReached(currentCount) == currentCount >= MAX_IMAGES

\* Enforce Limit: the count query returns the current number of rows; 403
\* at the limit, else performUpload starts (await c.req.parseBody())
ImagesCounted(r) ==
  /\ uploads[r].pc = "count"
  /\ IF LimitReached(imageRows)
     THEN Respond(r, 403)
     ELSE uploads' = [uploads EXCEPT ![r].pc = "parse"]
  /\ UNCHANGED <<imageRows, storedFiles>>
  /\ SrvUnchanged

\* performUpload after parseBody: no file throws (400); else the file is
\* read and storage.put is awaited
BodyParsed(r) ==
  /\ uploads[r].pc = "parse"
  /\ IF uploads[r].hasFile
     THEN uploads' = [uploads EXCEPT ![r].pc = "put"]
     ELSE Respond(r, 400)
  /\ UNCHANGED <<imageRows, storedFiles>>
  /\ SrvUnchanged

\* storage.put settles: the file is stored and the row insert is awaited,
\* or the rejection is caught (400)
FilePut(r, ok) ==
  /\ uploads[r].pc = "put"
  /\ IF ok
     THEN /\ storedFiles' = storedFiles + 1
          /\ uploads' = [uploads EXCEPT ![r].pc = "insert"]
     ELSE /\ Respond(r, 400)
          /\ UNCHANGED storedFiles
  /\ UNCHANGED imageRows
  /\ SrvUnchanged

\* db.insert(images) settles: the row exists and the handler answers 201,
\* or the rejection is caught (400)
RowInserted(r, ok) ==
  /\ uploads[r].pc = "insert"
  /\ IF ok
     THEN /\ imageRows' = imageRows + 1
          /\ Respond(r, 201)
     ELSE /\ Respond(r, 400)
          /\ UNCHANGED imageRows
  /\ UNCHANGED storedFiles
  /\ SrvUnchanged

(***************************************************************************)
(* Server: rbacMiddleware                                                  *)
(* Strings are sequences of characters; paths and methods are taken in     *)
(* lower case, as the middleware lower-cases them.                         *)
(***************************************************************************)
Ch(s, i) == SubSeq(s, i, i)

\* the rules module generated from auth.csv
rules ==
  <<
     [method |-> "get", pattern |-> "/", role |-> "public"],
     [method |-> "get", pattern |-> "/api/health", role |-> "public"],
     [method |-> "get", pattern |-> "/api/debug", role |-> "public"],
     [method |-> "get", pattern |-> "/public/ui**", role |-> "public"],
     [method |-> "get", pattern |-> "/public/models/**", role |-> "public"],
     [method |-> "get", pattern |-> "/public/doc**", role |-> "public"],
     [method |-> "get", pattern |-> "/public/favicon.ico", role |-> "public"],
     [method |-> "get", pattern |-> "/api/users/me", role |-> "user"],
     [method |-> "patch", pattern |-> "/api/users/me", role |-> "user"],
     [method |-> "get", pattern |-> "/api/users", role |-> "admin"],
     [method |-> "patch", pattern |-> "/api/users/*", role |-> "admin"],
     [method |-> "get", pattern |-> "/api/layouts", role |-> "admin"],
     [method |-> "get", pattern |-> "/api/layouts/*", role |-> "admin"],
     [method |-> "post", pattern |-> "/api/layouts/*/images", role |-> "admin"],
     [method |-> "get", pattern |-> "/api/user/layouts", role |-> "user"],
     [method |-> "post", pattern |-> "/api/user/layouts", role |-> "user"],
     [method |-> "get", pattern |-> "/api/user/layouts/*", role |-> "user"],
     [method |-> "patch", pattern |-> "/api/user/layouts/*", role |-> "user"],
     [method |-> "delete", pattern |-> "/api/user/layouts/*", role |-> "user"],
     [method |-> "post", pattern |-> "/api/user/layouts/*/images", role |-> "user"],
     [method |-> "get", pattern |-> "/api/images/*", role |-> "user"],
     [method |-> "patch", pattern |-> "/api/images/*", role |-> "user"],
     [method |-> "delete", pattern |-> "/api/images/*", role |-> "user"],
     [method |-> "get", pattern |-> "/api/admin/images/*", role |-> "admin"],
     [method |-> "patch", pattern |-> "/api/admin/images/*/training", role |-> "admin"],
     [method |-> "post", pattern |-> "/api/db/export", role |-> "admin"]
  >>

\* s.endsWith('/') && s.length > 1 ? s.slice(0, -1) : s
normalized(s) ==
  IF Len(s) > 1 /\ Ch(s, Len(s)) = "/" THEN SubSeq(s, 1, Len(s) - 1) ELSE s

\* patternToRegex(p).test(s), from position i of p and j of s: "**" is
\* ".*", a single "*" is "[^/]+", every other character stands for itself,
\* and the expression is anchored at both ends
RECURSIVE regexTest(_, _, _, _)
regexTest(p, i, s, j) ==
  IF i > Len(p) THEN j > Len(s)
  ELSE IF Ch(p, i) = "*" /\ i < Len(p) /\ Ch(p, i + 1) = "*"
  THEN \E k \in j..(Len(s) + 1) : regexTest(p, i + 2, s, k)
  ELSE IF Ch(p, i) = "*"
  THEN \E k \in (j + 1)..(Len(s) + 1) :
         /\ \A m \in j..(k - 1) : Ch(s, m) # "/"
         /\ regexTest(p, i + 1, s, k)
  ELSE /\ j <= Len(s)
       /\ Ch(s, j) = Ch(p, i)
       /\ regexTest(p, i + 1, s, j + 1)

\* the predicate of rules.find
ruleMatches(r, method, path) ==
  /\ r.method = "all" \/ r.method = method
  /\ regexTest(normalized(r.pattern), 1, normalized(path), 1)

\* a lookup that lets the last matching rule decide
findLastRule(rs, method, path) ==
  LET hits == {k \in 1..Len(rs) : ruleMatches(rs[k], method, path)}
  IN IF hits = {} THEN 0 ELSE CHOOSE k \in hits : \A j \in hits : j <= k

\* rules.find: the index of the first matching rule, 0 for undefined
findRule(rs, method, path) ==
  LET hits == {k \in 1..Len(rs) : ruleMatches(rs[k], method, path)}
  IN IF hits = {} THEN 0 ELSE CHOOSE k \in hits : \A j \in hits : k <= j

NoUser == [present |-> FALSE, roles |-> Undef]

\* user?.roles || ['public']
userRoles(user) ==
  IF user.present /\ user.roles # Undef THEN user.roles[1] ELSE {"public"}

Admitted == [status |-> 0, next |-> TRUE]
Thrown(status) == [status |-> status, next |-> FALSE]

\* a middleware that lets an administrator through when no rule matches
rbacMiddlewareAdminFirst(req) ==
  LET k == findRule(req.rules, req.method, req.path)
      roles == userRoles(req.user)
  IN IF "admin" \in roles THEN Admitted
  ELSE IF k = 0 THEN Thrown(403)
  ELSE IF req.rules[k].role = "public" THEN Admitted
  ELSE IF ~req.user.present THEN Thrown(401)
  ELSE IF req.rules[k].role \notin roles THEN Thrown(403)
  ELSE Admitted

\* rbacMiddleware: 403 without a rule; next() for a public rule; 401
\* without a user; 403 unless the user holds the required role or admin;
\* else next()
rbacMiddleware(req) ==
  LET k == findRule(req.rules, req.method, req.path)
      roles == userRoles(req.user)
  IN IF k = 0 THEN Thrown(403)
     ELSE IF req.rules[k].role = "public" THEN Admitted
     ELSE IF ~req.user.present THEN Thrown(401)
     ELSE IF req.rules[k].role \notin roles /\ "admin" \notin roles THEN Thrown(403)
     ELSE Admitted

RbacMethods == {"get", "post", "patch", "delete", "put"}
RbacPaths ==
  {"/", "/api/health", "/api/health/", "/api/users/me", "/api/users", "/api/users/u1",
   "/api/layouts", "/api/layouts/l1", "/api/layouts/l1/images", "/api/user/layouts",
   "/api/user/layouts/l1", "/api/user/layouts/l1/images", "/api/images/i1",
   "/api/admin/images/i1/training", "/api/db/export", "/public/ui/index.html",
   "/public/models/m/model.ort", "/public/models", "/api/random", "/api/images/i1/x"}
RoleNames == {"user", "admin"}
RbacUsers ==
  {NoUser} \cup {[present |-> TRUE, roles |-> o] :
                   o \in {Undef} \cup {<<rs>> : rs \in SUBSET RoleNames}}
\* the rule list as loaded, or empty when auth.csv was not found
RuleSets == {rules, <<>>}
RbacRequests == [method : RbacMethods, path : RbacPaths, user : RbacUsers, rules : RuleSets]

\* one request passes through the middleware
Rbac ==
  /\ fnResult = NoResult
  /\ fnArgs \in RbacRequests
  /\ fnResult' = <<rbacMiddleware(fnArgs)>>
  /\ UNCHANGED fnArgs
  /\ UNCHANGED exceptFn

(***************************************************************************)
(* Specifications                                                          *)
(***************************************************************************)
CalibInitState ==
  /\ layout = NewLayout
  /\ dptOut = Unread

FnInitState ==
  /\ fnArgs = NoArgs
  /\ fnResult = NoResult

InitCalib ==
  /\ layout \in ConstructedLayouts \cup {NewLayout, ScenarioLayout}
  /\ dptOut = Unread
  /\ ClsInitState
  /\ LiveInitState
  /\ EdInitState
  /\ SrvInitState
  /\ FnInitState

NextCalib ==
  \/ \E p1x \in Coords, p1y \in Coords, p2x \in Coords, p2y \in Coords :
       setCalibration(p1x, p1y, p2x, p2y)
  \/ \E mm \in (0 - 1)..MaxDist : setReferenceDistance(mm)
  \/ \E s \in ScaleNames \cup {"X"} : setScale(s)
  \/ ReadDpt

SpecCalib == InitCalib /\ [][NextCalib]_vars

InitClassifier ==
  CalibInitState /\ ClsInitState /\ LiveInitState /\ EdInitState /\ SrvInitState /\ FnInitState

NextClassifier ==
  \/ \E md \in BOOLEAN : Initialize(md)
  \/ \E w \in 1..MaxInitCalls : WaiterSettles(w)
  \/ \E ok \in BOOLEAN : InitConfigLoaded(ok)
  \/ \E ok \in BOOLEAN : InitModelLoaded(ok)
  \/ \E ok \in BOOLEAN : InitSessionCreated(ok)
  \/ Classify
  \/ \E i \in 1..MaxCalls : CallStart(i)
  \/ \E i \in 1..MaxCalls : CallInitialized(i)
  \/ \E i \in 1..MaxCalls, hasCtx \in BOOLEAN, draw \in DrawOutcomes : PatchDone(i, hasCtx, draw)
  \/ \E i \in 1..MaxCalls : RunStart(i)
  \/ \E i \in 1..MaxCalls, ok \in BOOLEAN : RunDone(i, ok)

SpecClassifier == InitClassifier /\ [][NextClassifier]_vars

\* the live view is constructed disconnected; the layout it consumes is
\* calibrated or not, and its first image has markers or does not exist
InitLive ==
  /\ layout \in {NewLayout, CalibratedLayout}
  /\ dptOut = Unread
  /\ ClsInitState
  /\ isConnected = FALSE
  /\ liveClassifier \in {0, 1}
  /\ markersData \in {Undef, <<{"m1"}>>, <<MarkerIds>>}
  /\ worker = 0
  /\ workersMade = 0
  /\ isWorkerBusy = FALSE
  /\ loopId = FALSE
  /\ rafPending = FALSE
  /\ connecting = 0
  /\ capturing = FALSE
  /\ frames = <<>>
  /\ toWorker = <<>>
  /\ toMain = <<>>
  /\ wClassifier = "null"
  /\ wInit = "none"
  /\ wPair = 0
  /\ wLoads = 0
  /\ wOldInits = 0
  /\ wIsBusy = FALSE
  /\ wBatch = NoBatch
  /\ DisplayInitState
  /\ CamInitState
  /\ EdInitState
  /\ SrvInitState
  /\ FnInitState

NextLive ==
  \/ handleClassifierSettingsChange(1)
  \/ connectedCallback
  \/ CameraStarted
  \/ disconnectedCallback
  \/ \E ready \in BOOLEAN : LoopTick(ready)
  \/ \E ok \in BOOLEAN : CaptureDone(ok)
  \/ MainReceive
  \/ WorkerReceive
  \/ \E ok \in BOOLEAN : WorkerInitSettled(ok)
  \/ \E ok \in BOOLEAN, label \in Labels : WorkerClassifyOne(ok, label)
  \/ \E ms \in InferenceTimes : WorkerBatchDone(ms)
  \/ \E atPost \in BOOLEAN : WorkerBatchThrows(atPost)

SpecLive == InitLive /\ [][NextLive]_vars

\* the live view of a calibrated layout with a classifier, once connected:
\* time passes, the MQTT client connects, batches are classified
InitLiveDisplay ==
  /\ InitLive
  /\ layout = CalibratedLayout
  /\ markersData # Undef

NextLiveDisplay ==
  \/ handleClassifierSettingsChange(1)
  \/ connectedCallback
  \/ CameraStarted
  \/ MqttConnected
  \/ \E d \in TimeSteps : TimePasses(d)
  \/ LoopTick(TRUE)
  \/ CaptureDone(TRUE)
  \/ MainReceive
  \/ WorkerReceive
  \/ WorkerInitSettled(TRUE)
  \/ \E ok \in BOOLEAN : WorkerClassifyOne(ok, "track")
  \/ \E ms \in InferenceTimes : WorkerBatchDone(ms)

SpecLiveDisplay == InitLiveDisplay /\ [][NextLiveDisplay]_vars

\* the worker on its own, serving the init messages of the thread that
\* created it
WorkerPairs == {1, 2}

InitWorker == InitLive

NextWorker ==
  \/ \E pair \in WorkerPairs : PostInit(pair)
  \/ WorkerReceive
  \/ \E ok \in BOOLEAN : WorkerInitSettled(ok)
  \/ \E ok \in BOOLEAN : WorkerOldInitSettled(ok)
  \/ MainReceive

SpecWorker == InitWorker /\ [][NextWorker]_vars

\* the upload route serving the requests of the users of one layout, which
\* holds any number of images up to the limit
InitUpload ==
  /\ CalibInitState /\ ClsInitState /\ LiveInitState /\ EdInitState /\ FnInitState
  /\ imageRows \in 0..MAX_IMAGES
  /\ storedFiles = imageRows
  /\ uploads = [r \in Requests |-> NoUpload]

NextUpload ==
  \/ \E r \in Requests, owner \in BOOLEAN, hasFile \in BOOLEAN : UploadRequest(r, owner, hasFile)
  \/ \E r \in Requests : LayoutLookedUp(r)
  \/ \E r \in Requests : ImagesCounted(r)
  \/ \E r \in Requests : BodyParsed(r)
  \/ \E r \in Requests, ok \in BOOLEAN : FilePut(r, ok)
  \/ \E r \in Requests, ok \in BOOLEAN : RowInserted(r, ok)

SpecUpload == InitUpload /\ [][NextUpload]_vars

\* one request with method, path, user and rule list drawn from RbacRequests
InitRbac ==
  /\ CalibInitState /\ ClsInitState /\ LiveInitState /\ EdInitState /\ SrvInitState
  /\ fnArgs \in RbacRequests
  /\ fnResult = NoResult

NextRbac == Rbac

SpecRbac == InitRbac /\ [][NextRbac]_vars

\* the editor starts with no image selected and no classifier; the layout
\* it consumes is calibrated or not
InitEditor ==
  /\ layout \in {NewLayout, CalibratedLayout}
  /\ dptOut = Unread
  /\ ClsInitState
  /\ LiveInitState
  /\ EdInitState
  /\ SrvInitState
  /\ FnInitState

NextEditor ==
  \/ \E i \in Images : SelectImage(i)
  \/ \E i \in Images : BitmapLoaded(i)
  \/ \E c \in EdClassifiers : ClassifierChanged(c)
  \/ \E id \in MarkerIds, x \in Positions : MoveMarker(id, x)
  \/ \E id \in MarkerIds, x \in Positions, type \in MarkerTypes : AddMarker(id, x, type)
  \/ \E id \in MarkerIds : DeleteMarker(id)
  \/ \E d \in BOOLEAN : SetDragHandle(d)
  \/ \E k \in 1..(MaxPasses * Len(MarkerOrder)), ok \in BOOLEAN, label \in Labels :
       ResultArrives(k, ok, label)

SpecEditor == InitEditor /\ [][NextEditor]_vars

\* the editor when every classification succeeds
NextEditorOk ==
  \/ \E i \in Images : SelectImage(i)
  \/ \E i \in Images : BitmapLoaded(i)
  \/ \E c \in EdClassifiers : ClassifierChanged(c)
  \/ \E id \in MarkerIds, x \in Positions : MoveMarker(id, x)
  \/ \E id \in MarkerIds, x \in Positions, type \in MarkerTypes : AddMarker(id, x, type)
  \/ \E id \in MarkerIds : DeleteMarker(id)
  \/ \E d \in BOOLEAN : SetDragHandle(d)
  \/ \E k \in 1..(MaxPasses * Len(MarkerOrder)), label \in Labels :
       ResultArrives(k, TRUE, label)

SpecEditorOk == InitEditor /\ [][NextEditorOk]_vars

\* the editor while the calibration and the classifier settings are edited
\* and the debug tool is used; the markers stay as loaded
NextEditorCalib ==
  \/ \E i \in Images : SelectImage(i)
  \/ \E i \in Images : BitmapLoaded(i)
  \/ \E c \in CalibEdClassifiers : ClassifierChanged(c)
  \/ \E mm \in 1..MaxDist : CalibrationChanged(mm)
  \/ debugClick
  \/ \E k \in 1..(MaxPasses * Len(MarkerOrder)), ok \in BOOLEAN, label \in Labels :
       ResultArrives(k, ok, label)

SpecEditorCalib == InitEditor /\ [][NextEditorCalib]_vars

\* one patch() call with arguments drawn from PatchArgs
InitPatch ==
  /\ CalibInitState /\ ClsInitState /\ LiveInitState /\ EdInitState /\ SrvInitState
  /\ fnArgs \in PatchArgs
  /\ fnResult = NoResult

NextPatch == Patch

SpecPatch == InitPatch /\ [][NextPatch]_vars

\* one float32ToFloat16 element with the float32 drawn from Float32s
InitFloat16 ==
  /\ CalibInitState /\ ClsInitState /\ LiveInitState /\ EdInitState /\ SrvInitState
  /\ fnArgs \in Float32s
  /\ fnResult = NoResult

NextFloat16 == Float32ToFloat16

SpecFloat16 == InitFloat16 /\ [][NextFloat16]_vars

(***************************************************************************)
(* Claims                                                                  *)
(***************************************************************************)
Increasing(s) == \A j \in 1..Len(s), k \in 1..Len(s) : j < k => s[j] < s[k]

\* C1: single-flight. At no instant are two classify calls inside
\* session.run; calls enter session.run in submission order, each at most
\* once; the classify promises settle in submission order; and when all N
\* issued calls have resolved with a label, exactly N invocations were made,
\* one per call, in submission order.
SingleFlight ==
  /\ Cardinality(running) <= 1
  /\ Increasing(runLog)
  /\ \A k \in 1..Len(doneLog) : doneLog[k] = k
  /\ \A i \in 1..Len(callState) :
       callState[i] = "resolved" => \E k \in 1..Len(runLog) : runLog[k] = i
  /\ (\A i \in 1..Len(callState) : callState[i] = "resolved")
       => runLog = [k \in 1..Len(callState) |-> k]

\* C1 witness: three calls were issued concurrently; the first has
\* completed, the second is inside session.run, the third still waits
SingleFlightWitness ==
  /\ Len(callState) >= 3
  /\ callState[1] = "resolved"
  /\ callState[2] = "run"
  /\ callState[3] = "queued"

\* C7: initialization is memoized. However many initialize() calls are
\* made (explicit ones and those of classify and patch), model.config and
\* the model weights are each fetched at most once per instance.
InitFetchedOnce == configFetches <= 1 /\ modelFetches <= 1

\* C7 witness: two explicit initialize() callers and a classify call that
\* went through _ensureInitialized twice shared one completed load
InitFetchedOnceWitness ==
  /\ Len(waiters) >= 2
  /\ \A w \in 1..Len(waiters) : waiters[w] = "resolved"
  /\ \E i \in 1..Len(callState) : callState[i] = "run"
  /\ configFetches = 1
  /\ modelFetches = 1

NoSuccessAfterFailure ==
  /\ \A w \in 1..Len(waiters) : waiters[w] # "resolved"
  /\ \A i \in 1..Len(callState) : callState[i] \notin {"patch", "pre", "run", "resolved"}
  /\ ~session

\* C8: a load failure is fatal to the instance. Once _initPromise is
\* rejected it stays rejected, no further fetch is made (no retry), and no
\* initialize() waiter and no classify call on the instance ever succeeds:
\* waiters and calls that settle are rejected.
InitFailureFatal ==
  [][ /\ (initPromise' = "rejected" => NoSuccessAfterFailure')
      /\ (initPromise = "rejected" =>
            /\ initPromise' = "rejected"
            /\ configFetches' = configFetches
            /\ modelFetches' = modelFetches
            /\ initPc' = initPc) ]_vars

\* C8 witness: the load failed, a waiting initialize() caller was rejected
\* and two classify calls issued on the instance were rejected
InitFailureFatalWitness ==
  /\ initPromise = "rejected"
  /\ \E w \in 1..Len(waiters) : waiters[w] = "rejected"
  /\ Len(callState) >= 2
  /\ callState[1] = "rejected"
  /\ callState[2] = "rejected"

AtOrigin(x, y) == Falsy(x) /\ Falsy(y)

\* C9: whenever referenceDistanceMm is missing, zero or negative, the
\* dots_per_track getter returns the sentinel -1, whatever the calibration
\* points and the scale are.
DptSentinelWithoutDistance ==
  (dptOut # Unread /\ (Falsy(layout.referenceDistanceMm) \/ layout.referenceDistanceMm[1] <= 0))
    => dptOut = Num(Sentinel)

\* C9 witness: both points are set and distinct, the reference distance is
\* negative, and the getter was read and gave the sentinel
DptSentinelWithoutDistanceWitness ==
  /\ dptOut = Num(Sentinel)
  /\ layout.referenceDistanceMm = Num(0 - 1)
  /\ layout.p1x = Num(1) /\ layout.p1y = Num(1)
  /\ layout.p2x = Num(2) /\ layout.p2y = Num(1)

\* C10: dots_per_track is the sentinel -1 unless both calibration points
\* differ from the origin default (0,0) and the reference distance is
\* positive; in particular it is -1 when exactly one point is at the origin.
DptSentinelUnlessCalibrated ==
  (dptOut # Unread /\ dptOut # Num(Sentinel))
    => /\ ~AtOrigin(layout.p1x, layout.p1y)
       /\ ~AtOrigin(layout.p2x, layout.p2y)
       /\ ~Falsy(layout.referenceDistanceMm)
       /\ layout.referenceDistanceMm[1] > 0

\* C11: for every layout whose two calibration points are set (off the
\* origin), whose reference distance is positive and whose scale is a known
\* one, the value read from dots_per_track is
\* (pixel distance / referenceDistanceMm) * (1435 / scale denominator), up to
\* the truncation of the fixed-point unit: it is proportional to the pixel
\* distance, and for p1=(10,10), p2=(110,10), 100 mm, HO it is 1435/87.
DptFormula ==
  /\ (/\ dptOut # Unread
      /\ ~AtOrigin(layout.p1x, layout.p1y)
      /\ ~AtOrigin(layout.p2x, layout.p2y)
      /\ ~Falsy(layout.referenceDistanceMm)
      /\ layout.referenceDistanceMm[1] > 0
      /\ layout.scale \in ScaleNames)
     => LET dx == OrZero(layout.p2x) - OrZero(layout.p1x)
            dy == OrZero(layout.p2y) - OrZero(layout.p1y)
            px == SqrtFP(dx * dx + dy * dy)
            den == layout.referenceDistanceMm[1] * Scale2Number(layout.scale)
            v == dptOut[1]
        IN /\ v * den <= px * 1435
           /\ px * 1435 < (v + 1) * den
  /\ (dptOut # Unread /\ layout = ScenarioLayout)
     => dptOut = Num((1435 * FP) \div 87)

\* C11 witness: the scenario layout was read and gave 1435/87, about 16.49
DptFormulaWitness ==
  /\ layout = ScenarioLayout
  /\ dptOut # Unread
  /\ dptOut[1] > 16 * FP
  /\ dptOut[1] < 17 * FP

\* C12: every caller checks the sentinel: no Classifier.classify or
\* Classifier.patch call of the editor (validation loop, debug click) and no
\* classify-batch message of the live loop carries a DPT that is -1 or
\* otherwise not positive.
DptCheckedByCallers ==
  /\ \A d \in dptUsed : d > 0
  /\ \A k \in 1..Len(toWorker) : IsBatch(toWorker[k]) => toWorker[k].dpt > 0

\* C13: patch geometry. With model DPT t, frame DPT s and crop size n the
\* scale factor is t/s, the source square has side n/(t/s) = n*s/t and is
\* centred on the marker (top-left = centre - side/2), and it is drawn into
\* the whole n x n canvas; for t=28, n=96, s=14 the scale factor is 2 and
\* the source side is 48.
PatchGeometry ==
  fnResult # NoResult =>
    LET a == fnArgs
        r == fnResult[1]
    IN /\ r.scaleFactor[1] * a.img_dpt = a.dpt * r.scaleFactor[2]
       /\ r.sw[1] * a.dpt = a.cropSize * a.img_dpt * r.sw[2]
       /\ r.sh = r.sw
       /\ 2 * r.sx[1] * r.sw[2] + r.sw[1] * r.sx[2] = 2 * a.x * r.sx[2] * r.sw[2]
       /\ 2 * r.sy[1] * r.sh[2] + r.sh[1] * r.sy[2] = 2 * a.y * r.sy[2] * r.sh[2]
       /\ RatEq(r.dx, Rat(0)) /\ RatEq(r.dy, Rat(0))
       /\ RatEq(r.dw, Rat(a.cropSize)) /\ RatEq(r.dh, Rat(a.cropSize))
       /\ RatEq(r.width, Rat(a.cropSize)) /\ RatEq(r.height, Rat(a.cropSize))
       /\ (a.dpt = 28 /\ a.cropSize = 96 /\ a.img_dpt = 14)
            => (RatEq(r.scaleFactor, Rat(2)) /\ RatEq(r.sw, Rat(48)))

\* C13 witness: the call with t=28, n=96, s=14 returned
PatchGeometryWitness ==
  /\ fnResult # NoResult
  /\ fnArgs \in PatchArgs
  /\ fnArgs.dpt = 28 /\ fnArgs.cropSize = 96 /\ fnArgs.img_dpt = 14
  /\ fnArgs.x = 1

\* C14: identity scale. When the frame DPT equals the model's DPT the scale
\* factor is 1 and the source rectangle is the n x n square centred on the
\* marker, the same size as the destination, so it is copied one to one.
PatchIdentity ==
  (fnResult # NoResult /\ fnArgs \in PatchArgs /\ fnArgs.img_dpt = fnArgs.dpt) =>
    LET a == fnArgs
        r == fnResult[1]
    IN /\ RatEq(r.scaleFactor, Rat(1))
       /\ RatEq(r.sw, r.dw) /\ RatEq(r.sh, r.dh)
       /\ RatEq(r.sw, Rat(a.cropSize))
       /\ RatEq(r.sx, <<2 * a.x - a.cropSize, 2>>)
       /\ RatEq(r.sy, <<2 * a.y - a.cropSize, 2>>)

\* C14 witness: a call with frame DPT = model DPT = 28 returned
PatchIdentityWitness ==
  /\ fnResult # NoResult
  /\ fnArgs \in PatchArgs
  /\ fnArgs.img_dpt = 28 /\ fnArgs.dpt = 28 /\ fnArgs.cropSize = 96

\* C15: float32ToFloat16 encodes 1.0 as 0x3C00 and 0.0 as 0x0000; a value
\* whose half-precision exponent overflows (unbiased exponent above 15)
\* becomes signed infinity, 0x7C00 or 0xFC00; a value whose exponent
\* underflows (unbiased exponent below -14) becomes signed zero, 0x0000 or
\* 0x8000.
Float16SpecialValues ==
  (fnResult # NoResult /\ fnArgs \in Float32s) =>
    LET f == fnArgs
        h == fnResult[1]
    IN /\ (f.sign = 0 /\ f.exp = 127 /\ f.man = 0) => h = 15360
       /\ (f.sign = 0 /\ f.exp = 0 /\ f.man = 0) => h = 0
       /\ f.exp - 127 > 15 => h = (IF f.sign = 1 THEN 64512 ELSE 31744)
       /\ f.exp - 127 < 0 - 14 => h = (IF f.sign = 1 THEN 32768 ELSE 0)

\* C15 witness: a negative float32 with exponent field 143 (the least one
\* that overflows) and a nonzero mantissa was converted to 0xFC00
Float16SpecialValuesWitness ==
  /\ fnArgs \in Float32s
  /\ fnArgs.sign = 1 /\ fnArgs.exp = 143 /\ fnArgs.man = 8192
  /\ fnResult = <<64512>>

\* C16: for a float32 in the normal half-precision range (unbiased
\* exponent -14..15) the result is the round-to-nearest, ties-to-even
\* half-precision pattern: the 13 discarded mantissa bits round the kept 10
\* bits, a carry moving into the exponent.
Float16RoundsToNearest ==
  (fnResult # NoResult /\ fnArgs \in Float32s /\ fnArgs.exp >= 113 /\ fnArgs.exp <= 142) =>
    LET f == fnArgs
        kept == f.man \div 8192
        rest == f.man % 8192
        up == IF rest > 4096 \/ (rest = 4096 /\ kept % 2 = 1) THEN 1 ELSE 0
    IN fnResult[1] = f.sign * 32768 + (f.exp - 112) * 1024 + kept + up

\* C17: when the source frame was released (closed or detached) before or
\* during extraction, patch returns null and does not throw; the classify
\* call it belongs to fails, the Classifier stays initialized, and the
\* next queued call is free to start.
PatchNullOnReleasedFrame ==
  \A k \in 1..Len(patchLog) :
    patchLog[k].draw = "detached" =>
      /\ patchLog[k].result = "null"
      /\ callState[patchLog[k].call] = "rejected"
      /\ initPromise = "fulfilled" /\ session /\ config
      /\ (patchLog[k].call < Len(callState) /\ callState[patchLog[k].call + 1] = "queued")
            => CanStart(patchLog[k].call + 1)

\* C17 witness: the first call found its frame released and got no patch,
\* and the call after it was classified
PatchNullOnReleasedFrameWitness ==
  /\ Len(patchLog) >= 1
  /\ patchLog[1].call = 1 /\ patchLog[1].draw = "detached" /\ patchLog[1].result = "null"
  /\ Len(callState) >= 2
  /\ callState[2] = "resolved"

\* the editor can validate in the next state: the displayed image's bitmap
\* is held, a classifier is provided, no drag is under way and the layout
\* is calibrated
CanValidateNext ==
  /\ imageIndex' \in Images
  /\ imageBitmap' = imageIndex'
  /\ edClassifier' # 0
  /\ ~dragHandle'
  /\ dots_per_track(layout') > 0

AllMarkersRequested ==
  \A id \in DOMAIN edMarkers'[imageIndex'] :
    markerValidationRequests'[id] > markerValidationRequests[id]

\* C18: in editor mode, a step that changes the displayed image, the
\* calibration (the DPT) or the classifier identity issues a new
\* classification request for every marker of the displayed image, also
\* for markers that already hold a validation result.
ReEvaluatedOnChange ==
  [][((\/ imageIndex' # imageIndex
       \/ imageBitmap' # imageBitmap
       \/ dots_per_track(layout') # dots_per_track(layout)
       \/ edClassifier' # edClassifier)
      /\ CanValidateNext) => AllMarkersRequested]_vars

\* the ids with a cached validation result
Cached(vr) == DOMAIN vr

\* C19: when the marker set of the displayed image shrinks, the validation
\* update that follows prunes the cached result of every removed id: when
\* that update is over (at once if nothing needs classifying, else when
\* its classifications have arrived) validationResults holds no entry for
\* an id that is not in the marker set.
PrunedInSameUpdate ==
  [][/\ (/\ imageIndex \in Images
         /\ imageIndex' = imageIndex
         /\ passes' = passes
         /\ CanValidateNext)
        => Cached(validationResults') \cap
             ((DOMAIN edMarkers[imageIndex]) \ (DOMAIN edMarkers'[imageIndex])) = {}
     /\ \A p \in (DOMAIN passes) \ (DOMAIN passes') :
          passes[p].imageIndex = imageIndex
            => Cached(validationResults') \cap passes[p].removed = {}
    ]_vars

\* C20: a classification result that arrives after its marker was deleted
\* is discarded: validationResults never holds a result that arrived when
\* its marker id was no longer in the marker set of its image.
DeletedMarkerResultDiscarded ==
  \A id \in DOMAIN validationResults : validationResults[id].present

InFlight ==
  Cardinality({k \in 1..Len(toWorker) : IsBatch(toWorker[k])})
    + (IF wBatch.frame # 0 THEN 1 ELSE 0)

\* C2: backpressure. In every reachable state at most one classify-batch
\* is in flight (posted and not yet answered by the worker); while one is in
\* flight the busy flag is set and no frame capture is under way, so no
\* tick dispatches or buffers another frame.
Backpressure ==
  /\ InFlight <= 1
  /\ InFlight = 1 => (isWorkerBusy /\ ~capturing)
  /\ capturing => isWorkerBusy

\* C2 witness: a second batch is being classified by the worker while the
\* loop is armed for its next tick and the busy flag is set
BackpressureWitness ==
  /\ isConnected /\ rafPending /\ isWorkerBusy
  /\ wBatch.frame = 2
  /\ frames[1].st = "closed"

\* C4: the interactive thread clears its busy flag on every worker
\* response to a batch, a results message as well as an error message.
BusyClearedOnEveryResponse ==
  [][ (/\ toMain # <<>>
       /\ Head(toMain).frame # 0
       /\ toMain' = Tail(toMain)
       /\ worker' = worker) => ~isWorkerBusy' ]_vars

\* C5: on every exit path of the classify-batch handler the transferred
\* frame has been closed: no frame is left open by a handler that returned.
FrameReleasedOnEveryExit ==
  \A f \in 1..Len(frames) : frames[f].st # "unreleased"

\* C6: every init message handled by the worker is answered by exactly one
\* init-ok or error, and every classify-batch message handled by the worker
\* is answered by exactly one results or error message.
EveryRequestAnsweredOnce ==
  /\ \A f \in 1..Len(frames) :
       /\ frames[f].answers <= 1
       /\ frames[f].st \in {"closed", "unreleased"} => frames[f].answers = 1
  /\ Cardinality({k \in 1..Len(toMain) : toMain[k].frame = 0}) <= 1

AllNewResults ==
  {validationResults} \cup {passes[p].newResults : p \in DOMAIN passes}

\* C3: staleness guard. A classification result whose request number is
\* no longer the latest issued for its marker id when it arrives is
\* discarded: every result held in validationResults, or in the result map
\* of a running pass, carried the latest number of its marker on arrival.
StaleResultDiscarded ==
  \A r \in AllNewResults : \A id \in DOMAIN r : r[id].req = r[id].latest

\* C3 witness: a classification arrived after its request number had been
\* superseded, and the result of the later request 2 for m1 is stored
StaleResultDiscardedWitness ==
  /\ staleSeen
  /\ "m1" \in DOMAIN validationResults
  /\ validationResults["m1"].req = 2

\* C21: the display state of the live view is rate-limited. Any two
\* successive assignments of _displayState are at least
\* LIVE_DISPLAY_UPDATE_INTERVAL_MS apart, however fast results arrive.
DisplayRateLimited ==
  \A k \in 1..(Len(displayLog) - 1) :
    displayLog[k + 1] - displayLog[k] >= LIVE_DISPLAY_UPDATE_INTERVAL_MS

\* C21 witness: three results were handled, the display state was assigned
\* for two of them, exactly one interval apart
DisplayRateLimitedWitness ==
  /\ Len(displayLog) = 2
  /\ displayLog[2] - displayLog[1] = LIVE_DISPLAY_UPDATE_INTERVAL_MS
  /\ Len(frames) = 3
  /\ \A f \in 1..3 : frames[f].st = "closed"
  /\ toMain = <<>>

\* C22: a frame has a single owner at all times. Once the interactive
\* thread has posted a frame in a classify-batch message the worker owns it,
\* the interactive thread never reads, draws or closes it again, and the
\* worker uses no frame it does not own.
SingleOwner ==
  \A f \in 1..Len(frames) :
    /\ ~frames[f].foreign
    /\ frames[f].st = "leaked" <=> frames[f].owner = "main"

\* C22 witness: the first frame was posted, classified and closed by the
\* worker, and the interactive thread has posted a second frame since
SingleOwnerWitness ==
  /\ Len(frames) >= 2
  /\ frames[1].st = "closed" /\ frames[1].owner = "worker"
  /\ frames[2].st = "sent" /\ frames[2].owner = "worker"
  /\ isWorkerBusy

\* the interactive thread handles the worker's response to a batch
ResponseHandled ==
  /\ toMain # <<>>
  /\ Head(toMain).frame # 0
  /\ toMain' = Tail(toMain)
  /\ worker' = worker

\* C23: no timeout is imposed on a worker round-trip. While a dispatched
\* batch is unanswered (busy flag set, no capture under way), every step
\* that does not handle a response of the worker leaves the busy flag set
\* and sends no classify-batch, and a tick of the connected loop re-arms
\* itself.
NoRoundTripTimeout ==
  [][ (isWorkerBusy /\ ~capturing /\ ~ResponseHandled) =>
        /\ isWorkerBusy' /\ ~capturing'
        /\ Len(frames') = Len(frames)
        /\ \A k \in 1..Len(toWorker') :
             IsBatch(toWorker'[k]) => \E j \in 1..Len(toWorker) : toWorker[j] = toWorker'[k]
        /\ (rafPending /\ isConnected /\ isConnected') => rafPending' ]_vars

\* C23 witness: the worker returned from the classify-batch handler
\* without answering and has nothing left to do; the busy flag is set and
\* the connected loop is armed for its next tick
NoRoundTripTimeoutWitness ==
  /\ isWorkerBusy /\ ~capturing
  /\ isConnected /\ rafPending
  /\ Len(frames) = 1 /\ frames[1].st = "unreleased" /\ frames[1].answers = 0
  /\ toWorker = <<>> /\ toMain = <<>> /\ wBatch = NoBatch

\* the worker takes an init message that names the pair it has loaded
InitOfLoadedPair ==
  /\ toWorker # <<>>
  /\ Head(toWorker).type = "init"
  /\ toWorker' = Tail(toWorker)
  /\ wClassifier = "ready"
  /\ Head(toWorker).pair = wPair

\* C24: re-entering initialization with the same (model, precision) pair
\* is a no-op. An init request that names the pair already loaded keeps
\* the existing classifier and its session and starts no new load.
SamePairInitIsNoOp ==
  [][ InitOfLoadedPair =>
        /\ wClassifier' = "ready"
        /\ wLoads' = wLoads
        /\ wInit' = wInit ]_vars

\* C25: the batch handed to the publisher for a results message is that
\* frame's batch: it carries the inferenceTimeMs the worker reported in
\* that same results message (published.reportedMs records the reported
\* value, published.markers the message's id-to-label map).
PublishedBatchIsFramesBatch ==
  published # NoPublish => published.inferenceTimeMs = published.reportedMs

\* C26: a user upload succeeds (201) only when the layout holds fewer than
\* MAX_IMAGES images and is otherwise rejected with 403 without storing
\* anything, so that user uploads never bring a layout above MAX_IMAGES
\* images, also when several uploads to the same layout interleave.
ImageLimitHolds == imageRows <= MAX_IMAGES

\* the rules of the request's rule list that match its method and path
MatchingRules(req) ==
  {k \in 1..Len(req.rules) : ruleMatches(req.rules[k], req.method, req.path)}

\* C27: RBAC denies by default. A request whose method and path match no
\* access rule is rejected with 403 and never reaches the route handler,
\* whatever roles the user has (including none).
RbacDeniesByDefault ==
  (fnResult # NoResult /\ fnArgs \in RbacRequests /\ MatchingRules(fnArgs) = {}) =>
     fnResult[1] = [status |-> 403, next |-> FALSE]

\* C27 witness: an administrator's request to a route no rule names went
\* through the middleware, with the rule list loaded
RbacDeniesByDefaultWitness ==
  /\ fnResult # NoResult
  /\ fnArgs \in RbacRequests
  /\ fnArgs.rules = rules
  /\ fnArgs.path = "/api/random"
  /\ fnArgs.user.present /\ fnArgs.user.roles = <<{"admin"}>>
  /\ MatchingRules(fnArgs) = {}

\* C28: the first matching rule decides. A rule with role public admits
\* the request without any user; otherwise a request without a user gets
\* 401, a user holding the required role or the admin role is admitted, and
\* any other user gets 403.
RbacFirstRuleDecides ==
  (fnResult # NoResult /\ fnArgs \in RbacRequests /\ MatchingRules(fnArgs) # {}) =>
     LET first == CHOOSE k \in MatchingRules(fnArgs) : \A j \in MatchingRules(fnArgs) : k <= j
         role == fnArgs.rules[first].role
         user == fnArgs.user
         held == IF user.roles = Undef THEN {} ELSE user.roles[1]
     IN fnResult[1] =
          IF role = "public" THEN [status |-> 0, next |-> TRUE]
          ELSE IF ~user.present THEN [status |-> 401, next |-> FALSE]
          ELSE IF role \in held \/ "admin" \in held THEN [status |-> 0, next |-> TRUE]
          ELSE [status |-> 403, next |-> FALSE]

\* C28 witness: PATCH /api/users/me by a user who holds only the role user
\* matches the rule for /api/users/me (user) before the rule for
\* /api/users/* (admin), and was admitted
RbacFirstRuleDecidesWitness ==
  /\ fnResult # NoResult
  /\ fnArgs \in RbacRequests
  /\ fnArgs.method = "patch" /\ fnArgs.path = "/api/users/me"
  /\ fnArgs.user.present /\ fnArgs.user.roles = <<{"user"}>>
  /\ Cardinality(MatchingRules(fnArgs)) = 2
  /\ fnResult[1].next

\* the call i itself reached the step that rejected it: the shared load
\* failed, its own patch() gave no canvas, or its own session.run failed
RejectedOnItsOwn(i) ==
  \/ initPromise = "rejected"
  \/ \E k \in 1..Len(patchLog) : patchLog[k].call = i /\ patchLog[k].result # "canvas"
  \/ \E k \in 1..Len(runLog) : runLog[k] = i

\* C29: queued classify calls resolve independently. When a classify call
\* was rejected, the call queued after it can still start (it is not
\* rejected or blocked by its predecessor), calls are rejected only by
\* their own failure, and the calls that ran entered session.run in
\* submission order.
QueuedCallsIndependent ==
  /\ \A i \in 2..Len(callState) :
       (callState[i] = "queued" /\ callState[i - 1] = "rejected") => ENABLED CallStart(i)
  /\ \A i \in 1..Len(callState) : callState[i] = "rejected" => RejectedOnItsOwn(i)
  /\ \A i \in 2..Len(callState) :
       callState[i] \notin {"queued"} => Settled(callState[i - 1])

\* C29 witness: the load succeeded, the first call was rejected because its
\* patch could not be extracted, and the second and third calls, queued
\* behind it, ran and resolved in order
QueuedCallsIndependentWitness ==
  /\ initPromise = "fulfilled"
  /\ Len(callState) = 3
  /\ callState[1] = "rejected"
  /\ patchLog[1].call = 1 /\ patchLog[1].result = "null"
  /\ callState[2] = "resolved" /\ callState[3] = "resolved"
  /\ runLog = <<2, 3>>
  /\ doneLog = <<1, 2, 3>>

\* C30: a failure inside a batch skips only the affected marker. The
\* results message the worker posts for a frame holds the labels of exactly
\* the markers whose classification succeeded, and once the handler has
\* answered the worker is not busy, so that it accepts the next batch.
BatchSkipsOnlyFailedMarker ==
  /\ \A f \in 1..Len(frames) : frames[f].labelled = frames[f].succeeded
  /\ \A k \in 1..Len(toMain) :
       toMain[k].type = "results" =>
         {r[1] : r \in toMain[k].results} = frames[toMain[k].frame].succeeded
  /\ wIsBusy <=> wBatch.frame # 0

\* C30 witness: of the two markers of the first batch one classification
\* failed and the results message held the other's label; the worker has
\* accepted the second batch
BatchSkipsOnlyFailedMarkerWitness ==
  /\ Len(frames) >= 2
  /\ frames[1].st = "closed" /\ frames[1].answers = 1
  /\ markersData = <<MarkerIds>>
  /\ frames[1].labelled = {"m2"}
  /\ frames[2].st = "worker" /\ wBatch.frame = 2

\* a step in which a validation pass with classify calls starts
PassStarts == passCount' = passCount + 1

\* the stored result of id has the position and type of the marker m
SameKey(vr, id, m) ==
  id \in DOMAIN vr /\ <<vr[id].x, vr[id].y, vr[id].type>> = <<m.x, m.y, m.type>>

\* the entry of id is the same in the maps a and b
SameEntry(a, b, id) ==
  /\ (id \in DOMAIN a) = (id \in DOMAIN b)
  /\ id \in DOMAIN a => a[id] = b[id]

\* a pass that starts requests nothing for a marker whose stored result has
\* the marker's x, y and type
MemoizedNotRequested ==
  PassStarts =>
    \A id \in DOMAIN edMarkers'[imageIndex'] :
      SameKey(validationResults', id, edMarkers'[imageIndex'][id]) =>
        /\ markerValidationRequests'[id] = markerValidationRequests[id]
        /\ \A k \in 1..Len(edCalls') :
             ~(edCalls'[k].pass = passCount' /\ edCalls'[k].id = id)

\* when a pass ends, the stored results of the markers it skipped are what
\* they were just before it ended
MemoizedLeftUnchanged ==
  \A p \in DOMAIN passes :
    p \notin DOMAIN passes' =>
      \A id \in passes[p].memo : SameEntry(validationResults, validationResults', id)

\* C31: validation memoization. A validation pass issues no classify call
\* and no new sequence number for a marker whose stored validation result
\* has the marker's x, y and type, and the pass leaves that stored result
\* unchanged.
ValidationMemoized ==
  [][MemoizedNotRequested /\ MemoizedLeftUnchanged]_vars

\* the part of C31 that holds: nothing is requested for a memoized marker
MemoizedSkipsRequest == [][MemoizedNotRequested]_vars

\* the numbers issued for id that the element still holds: its stored
\* latest number, the numbers of its calls under way, and the numbers of
\* its results kept in validationResults or in the map of a running pass
KnownNumbers(id) ==
  {markerValidationRequests[id]}
    \cup {edCalls[k].requestId : k \in {j \in 1..Len(edCalls) : edCalls[j].id = id}}
    \cup {r[id].req : r \in {q \in AllNewResults : id \in DOMAIN q}}

\* the calls issued by the pass that starts in this step
IssuedNow == {k \in 1..Len(edCalls') : PassStarts /\ edCalls'[k].pass = passCount'}

\* C32: per-marker sequence numbers are strictly increasing. Every
\* evaluation issued for a marker id gets a number greater than every
\* number issued before for that id, the stored latest number of an id never
\* decreases, and every result that was applied carried the latest number
\* of its id when it arrived.
SequenceNumbersIncrease ==
  [][ /\ \A k \in IssuedNow :
           \A n \in KnownNumbers(edCalls'[k].id) : edCalls'[k].requestId > n
      /\ \A id \in MarkerIds :
           markerValidationRequests'[id] >= markerValidationRequests[id]
      /\ \A id \in DOMAIN validationResults' :
           validationResults'[id].req = validationResults'[id].latest
      /\ \A p \in DOMAIN passes' : \A id \in DOMAIN passes'[p].newResults :
           passes'[p].newResults[id].req = passes'[p].newResults[id].latest ]_vars

\* C32 witness: two evaluations of one marker are under way with the numbers
\* 1 and 2, the later one issued second, and 2 is the stored latest number
SequenceNumbersIncreaseWitness ==
  \E j, k \in 1..Len(edCalls) :
    /\ j < k
    /\ edCalls[j].id = edCalls[k].id
    /\ edCalls[j].requestId = 1 /\ edCalls[k].requestId = 2
    /\ markerValidationRequests[edCalls[k].id] = 2

\* what a loop callback that finds the busy flag set leaves alone
BusyTickDoesNothingElse ==
  UNCHANGED <<isConnected, liveClassifier, markersData, worker, workersMade, isWorkerBusy,
              connecting, capturing, chanVars, wrkVars, dispVars, stream, layout>>

\* C33: while the live view is connected, every scheduling tick re-arms
\* itself for the next cycle whether or not it captured a frame; a tick that
\* finds the busy flag set does nothing else, and still schedules the next
\* tick.
TickRearms ==
  [][ \A ready \in BOOLEAN :
        (isConnected /\ LoopTick(ready)) =>
          /\ rafPending' /\ loopId'
          /\ isWorkerBusy => BusyTickDoesNothingElse ]_vars

\* C33 witness: the last callback ran while the view was connected and
\* found the busy flag set; the batch is still out and the next callback is
\* scheduled
TickRearmsWitness ==
  /\ lastTick = "busy"
  /\ isConnected /\ isWorkerBusy /\ ~capturing
  /\ rafPending /\ loopId
  /\ \E k \in 1..Len(toWorker) : IsBatch(toWorker[k])

\* an init message for the pair is on its way to the worker
InitPending(pair) == \E k \in 1..Len(toWorker) : toWorker[k] = InitMsg(pair)

\* the batch message k will find an engine in the worker: the worker holds
\* a classifier, or an init message is ahead of the batch
BatchFindsEngine(k) ==
  wClassifier # "null" \/ \E j \in 1..(k - 1) : toWorker[j].type = "init"

\* C34: once a classifier (model, precision) is selected, the live view's
\* worker is initialised with that pair, also when the classifier becomes
\* available or changes after the view has connected: whenever the view
\* holds a worker and a classifier, the worker was given that pair or the
\* init message naming it is on its way (nothing else would ever post it).
\* And the capture loop dispatches no batch to a worker without an engine.
WorkerGetsSelectedPair ==
  /\ (worker # 0 /\ liveClassifier # 0) =>
       (wPair = liveClassifier \/ InitPending(liveClassifier))
  /\ \A k \in 1..Len(toWorker) : IsBatch(toWorker[k]) => BatchFindsEngine(k)

\* a batch was dispatched and its answer has not been handled
BatchOut == InFlight > 0 \/ \E k \in 1..Len(toMain) : toMain[k].frame # 0

\* the step is a disconnectedCallback
Disconnects == isConnected /\ ~isConnected'

\* C35: disconnecting the live view stops the loop and terminates the
\* worker, and a batch that was in flight when the view disconnected does
\* not leave the busy flag set (with the worker gone nothing would clear it,
\* and the loop of a later reconnect would never dispatch again): after
\* the disconnect the flag is set only while a capture is still under way.
DisconnectReleasesBusy ==
  [][ Disconnects =>
        /\ ~loopId' /\ ~rafPending'
        /\ worker' = 0
        /\ BatchOut => (isWorkerBusy' => capturing') ]_vars

\* no connectedCallback is suspended at await this._startCamera()
CallbacksFinished == connecting = 0

\* C38: if the live view is disconnected while connectedCallback is still
\* awaiting the camera start, then once both callbacks have finished no
\* camera stream is held open and no loop handle is left set, so that a
\* later reconnect starts the capture loop again: with the view connected
\* and its connectedCallback finished, a loop callback is scheduled.
DisconnectDuringCameraStart ==
  /\ (CallbacksFinished /\ ~isConnected) => (~stream /\ ~loopId)
  /\ (CallbacksFinished /\ isConnected) => rafPending

\* C36: in editor mode, after any sequence of image selections and bitmap
\* loads that complete in any order, the bitmap held for validation is the
\* bitmap of the currently selected image, or none: a load started for an
\* earlier selection never replaces the bitmap of the current one, and no
\* marker of one image is classified against the bitmap of another image.
BitmapOfSelectedImage ==
  /\ imageBitmap \in {0 - 1, imageIndex}
  /\ \A k \in 1..Len(edCalls) : edCalls[k].bitmap = passes[edCalls[k].pass].imageIndex

\* every validation pass has completed, no drag is under way (validation
\* is suspended while a marker is dragged), and image, bitmap, classifier
\* and a positive dots-per-track value are available
ValidationSettled ==
  /\ passes = NoResults /\ edCalls = <<>>
  /\ imageIndex \in Images /\ imageBitmap # 0 - 1
  /\ edClassifier # 0
  /\ ~dragHandle
  /\ dots_per_track(layout) > 0

\* C37: when validation passes overlap (a marker moves or the marker set
\* changes while an earlier pass is still awaiting results), then once all
\* passes have completed, with image, classifier and positive DPT available
\* and every classification succeeding, every entry of validationResults
\* belongs to a marker of the current set and records that marker's current
\* x, y and type.
SettledResultsAreCurrent ==
  ValidationSettled =>
    \A id \in DOMAIN validationResults :
      /\ id \in DOMAIN edMarkers[imageIndex]
      /\ SameKey(validationResults, id, edMarkers[imageIndex][id])

====
